---- MODULE Spec2Model ----
(***************************************************************************)
(* Task/Topic lifecycle of the Eisenhower matrix application               *)
(* (src/Eisenhower.py): the task and topic collections, their JSON stores, *)
(* and the handlers that create, edit, drag, archive, restore and delete.  *)
(*                                                                         *)
(* Strings that the code trims or lower-cases are sequences of one-letter  *)
(* strings; a value that may be None is <<>> (None) or <<v>> (a value).    *)
(* Timestamps are the ticks of a counter that every datetime.now() call    *)
(* advances, so created_at names a task uniquely across states.            *)
(***************************************************************************)
EXTENDS Integers, Sequences, FiniteSets, TLC

\* ------------------------------------------------------------------ bounds
MaxTasks == 1
MaxClock == 3
MaxWriteFailures == 1
MaxTopics == 1
MaxBucket == 3
MaxFilter == 2

\* ------------------------------------------------------------ None / value
None == <<>>
Some(x) == <<x>>
Val(o) == o[1]

\* Python truthiness of an optional string: None and "" are falsy.
Falsy(o) == o = None \/ Val(o) = <<>>

\* ------------------------------------------------------------------ strings
Whitespace == {" ", "\t", "\n"}

RECURSIVE lstrip(_)
lstrip(s) == IF s # <<>> /\ Head(s) \in Whitespace THEN lstrip(Tail(s)) ELSE s

RECURSIVE rstrip(_)
rstrip(s) ==
    IF s # <<>> /\ s[Len(s)] \in Whitespace THEN rstrip(SubSeq(s, 1, Len(s) - 1)) ELSE s

\* str.strip()
strip(s) == rstrip(lstrip(s))

UpperToLower ==
    [c \in {"A", "D", "E", "G", "I", "K", "L", "N", "O", "P", "S", "T", "W"} |->
        CASE c = "A" -> "a" [] c = "D" -> "d" [] c = "E" -> "e" [] c = "G" -> "g"
          [] c = "I" -> "i" [] c = "K" -> "k" [] c = "L" -> "l" [] c = "N" -> "n"
          [] c = "O" -> "o" [] c = "P" -> "p" [] c = "S" -> "s" [] c = "T" -> "t"
          [] c = "W" -> "w"]

\* str.lower()
lower(s) == [i \in 1..Len(s) |-> IF s[i] \in DOMAIN UpperToLower THEN UpperToLower[s[i]] ELSE s[i]]

\* ------------------------------------------------------------- categories
DO == <<"d", "o">>
PLAN == <<"p", "l", "a", "n">>
DELEGATE == <<"d", "e", "l", "e", "g", "a", "t", "e">>
WAIT == <<"w", "a", "i", "t">>
ASK == <<"a", "s", "k">>

Canonical == {DO, PLAN, DELEGATE, WAIT}

\* The entries of the category combo boxes (create dialog starts with "").
ComboDo == <<"D", "o">>
ComboPlan == <<"P", "l", "a", "n">>
ComboDelegate == <<"D", "e", "l", "e", "g", "a", "t", "e">>
ComboWait == <<"W", "a", "i", "t">>
CreateCombo == {<<>>, ComboDo, ComboPlan, ComboDelegate, ComboWait}
EditCombo == {ComboDo, ComboPlan, ComboDelegate, ComboWait}

\* norm_cat that lower-cases without trimming.
norm_cat_no_trim(cat) ==
    LET c0 == lower(IF cat = None THEN <<>> ELSE Val(cat))
        c1 == IF c0 = ASK THEN DELEGATE ELSE c0
    IN  IF c1 \notin Canonical THEN PLAN ELSE c1

\* norm_cat that sends an unknown value to the legacy "ask".
norm_cat_unknown_to_ask(cat) ==
    LET c0 == lower(strip(IF cat = None THEN <<>> ELSE Val(cat)))
        c1 == IF c0 = ASK THEN DELEGATE ELSE c0
    IN  IF c1 \notin Canonical THEN ASK ELSE c1

\* MatrixView.refresh.norm_cat: cat is None or a string.
norm_cat(cat) ==
    LET c0 == lower(strip(IF cat = None THEN <<>> ELSE Val(cat)))
        c1 == IF c0 = ASK THEN DELEGATE ELSE c0
    IN  IF c1 \notin Canonical THEN PLAN ELSE c1

\* -------------------------------------------------------------------- dates
Digit(n) == CASE n = 0 -> "0" [] n = 1 -> "1" [] n = 2 -> "2" [] n = 3 -> "3"
              [] n = 4 -> "4" [] n = 5 -> "5" [] n = 6 -> "6" [] n = 7 -> "7"
              [] n = 8 -> "8" [] n = 9 -> "9"

Pad2(n) == <<Digit(n \div 10), Digit(n % 10)>>
Pad4(n) == Pad2(n \div 100) \o Pad2(n % 100)

\* QDate.toString("yyyy-MM-dd") of the date <<year, month, day>>.
toString(qd) == Pad4(qd[1]) \o <<"-">> \o Pad2(qd[2]) \o <<"-">> \o Pad2(qd[3])

\* Parsing of date strings.  A date is <<year, month, day>>.
Digits == {"0", "1", "2", "3", "4", "5", "6", "7", "8", "9"}
DigitVal(c) == CASE c = "0" -> 0 [] c = "1" -> 1 [] c = "2" -> 2 [] c = "3" -> 3
                 [] c = "4" -> 4 [] c = "5" -> 5 [] c = "6" -> 6 [] c = "7" -> 7
                 [] c = "8" -> 8 [] c = "9" -> 9

RECURSIVE Number(_)
Number(s) == IF s = <<>> THEN 0 ELSE 10 * Number(SubSeq(s, 1, Len(s) - 1)) + DigitVal(s[Len(s)])

AllDigits(s) == s # <<>> /\ \A i \in 1..Len(s) : s[i] \in Digits

IsLeap(y) == (y % 4 = 0 /\ y % 100 # 0) \/ y % 400 = 0
DaysInMonth(y, m) ==
    CASE m \in {1, 3, 5, 7, 8, 10, 12} -> 31
      [] m \in {4, 6, 9, 11} -> 30
      [] m = 2 -> IF IsLeap(y) THEN 29 ELSE 28

\* Is <<y, m, d>> a date of the calendar?
IsDate(y, m, d) == y >= 1 /\ m \in 1..12 /\ d >= 1 /\ d <= DaysInMonth(y, m)

\* QDate.fromString(s, "yyyy-MM-dd"): four, two and two digits exactly; None
\* stands for the invalid QDate.
fromString(s) ==
    IF /\ Len(s) = 10
       /\ s[5] = "-" /\ s[8] = "-"
       /\ AllDigits(SubSeq(s, 1, 4)) /\ AllDigits(SubSeq(s, 6, 7)) /\ AllDigits(SubSeq(s, 9, 10))
       /\ IsDate(Number(SubSeq(s, 1, 4)), Number(SubSeq(s, 6, 7)), Number(SubSeq(s, 9, 10)))
    THEN Some(<<Number(SubSeq(s, 1, 4)), Number(SubSeq(s, 6, 7)), Number(SubSeq(s, 9, 10))>>)
    ELSE None

\* datetime.strptime(s, "%Y-%m-%d"): four digits, then one or two for the
\* month and for the day; None stands for the ValueError.
strptime(s) ==
    LET dash == IF Len(s) >= 7 /\ s[7] = "-" THEN 7 ELSE 8
        ys == IF Len(s) >= 4 THEN SubSeq(s, 1, 4) ELSE <<>>
        ms == SubSeq(s, 6, dash - 1)
        ds == SubSeq(s, dash + 1, Len(s))
    IN  IF /\ Len(s) \in 8..10
           /\ s[5] = "-" /\ s[dash] = "-"
           /\ AllDigits(ys) /\ AllDigits(ms) /\ AllDigits(ds)
           /\ Len(ds) \in 1..2
           /\ IsDate(Number(ys), Number(ms), Number(ds))
        THEN Some(<<Number(ys), Number(ms), Number(ds)>>)
        ELSE None

\* d1 < d2 for dates.
DateLess(d1, d2) ==
    \/ d1[1] < d2[1]
    \/ d1[1] = d2[1] /\ d1[2] < d2[2]
    \/ d1[1] = d2[1] /\ d1[2] = d2[2] /\ d1[3] < d2[3]

\* QDate.addDays(1)
addDay(d) ==
    IF d[3] < DaysInMonth(d[1], d[2]) THEN <<d[1], d[2], d[3] + 1>>
    ELSE IF d[2] < 12 THEN <<d[1], d[2] + 1, 1>>
    ELSE <<d[1] + 1, 1, 1>>

\* is_overdue that counts today as overdue.
is_overdue_or_today(date_str, today) ==
    /\ ~Falsy(date_str)
    /\ fromString(Val(date_str)) # None
    /\ ~DateLess(today, Val(fromString(Val(date_str))))

\* MatrixView.is_overdue, QDate.currentDate() being `today`.
is_overdue(date_str, today) ==
    /\ ~Falsy(date_str)
    /\ fromString(Val(date_str)) # None
    /\ DateLess(Val(fromString(Val(date_str))), today)

\* is_due_today_or_tomorrow that adds one to the day number.
is_due_today_or_day_plus_one(date_str, today) ==
    /\ ~Falsy(date_str)
    /\ fromString(Val(date_str)) # None
    /\ LET d == Val(fromString(Val(date_str)))
       IN  d = today \/ d = <<today[1], today[2], today[3] + 1>>

\* MatrixView.is_due_today_or_tomorrow
is_due_today_or_tomorrow(date_str, today) ==
    /\ ~Falsy(date_str)
    /\ fromString(Val(date_str)) # None
    /\ LET d == Val(fromString(Val(date_str)))
       IN  d = today \/ d = addDay(today)

\* MatrixView.refresh.add_task_to_widget: the colour of the row.
color(date_str, today) ==
    IF is_overdue(date_str, today) THEN "red"
    ELSE IF is_due_today_or_tomorrow(date_str, today) THEN "#e67e22"
    ELSE "black"

\* TimelineView.refresh: is the row red?  strptime gives midnight of the due
\* date, which is compared with datetime.now(): the date `today` and the
\* seconds since midnight `time`.
timeline_overdue(date_str, today, time) ==
    /\ ~Falsy(date_str)
    /\ strptime(Val(date_str)) # None
    /\ LET due == Val(strptime(Val(date_str)))
       IN  DateLess(due, today) \/ (due = today /\ 0 < time)

\* --------------------------------------------------------------- Task record
\* Task.__init__.  original_category is no constructor argument: a new object
\* has no such attribute, which the record shows as None (the code reads it
\* with hasattr/getattr and treats a missing and a falsy value alike).
Task(title, category, due_date, status, created_at, completed_at, closing_comment, description, now) ==
    [title |-> title,
     category |-> category,
     due_date |-> due_date,
     status |-> status,
     created_at |-> IF created_at = None THEN now ELSE Val(created_at),
     completed_at |-> completed_at,
     closing_comment |-> closing_comment,
     description |-> description,
     original_category |-> None]

\* Task.to_dict: the keys written to the store.
to_dict(t) ==
    [title |-> Some(t.title),
     category |-> t.category,
     due_date |-> t.due_date,
     status |-> t.status,
     created_at |-> Some(t.created_at),
     completed_at |-> t.completed_at,
     closing_comment |-> t.closing_comment,
     description |-> t.description]

\* Task.from_dict: d["title"] raises KeyError when the key is missing
\* (title = None in the dict record); see load.
from_dict(d, now) ==
    Task(Val(d.title), d.category, d.due_date, d.status, d.created_at,
         d.completed_at, d.closing_comment, d.description, now)

\* ------------------------------------------------------------------- files
MissingFile == [kind |-> "missing", data |-> <<>>]
CorruptFile == [kind |-> "corrupt", data |-> <<>>]
JsonFile(data) == [kind |-> "json", data |-> data]

\* json.dump([t.to_dict() for t in self.tasks])
dump(ts) == [i \in 1..Len(ts) |-> to_dict(ts[i])]

\* A file whose JSON value is not a list of records (a number: iterating it
\* raises TypeError).
ScalarFile == [kind |-> "scalar", data |-> <<>>]

\* An element of the stored list that is not an object (a JSON string, say):
\* d["title"] and d.get raise on it.
NotDict == [json |-> "string"]
IsDict(d) == "json" \notin DOMAIN d

\* A load that drops the records it cannot convert and keeps the others.
load_skips_bad_records(file, now) ==
    IF file.kind = "json"
    THEN LET good == SelectSeq(file.data, LAMBDA d : IsDict(d) /\ d.title # None)
         IN  [i \in 1..Len(good) |-> from_dict(good[i], now)]
    ELSE <<>>

\* TaskManager.load: a missing file, a file that does not parse, or a record
\* that is no object or has no title all give the empty list.
load(file, now) ==
    IF /\ file.kind = "json"
       /\ \A i \in 1..Len(file.data) : IsDict(file.data[i]) /\ file.data[i].title # None
    THEN [i \in 1..Len(file.data) |-> from_dict(file.data[i], now)]
    ELSE <<>>

\* Does load call datetime.now() (a record without created_at)?
loadUsesClock(file) ==
    /\ file.kind = "json"
    /\ \A i \in 1..Len(file.data) : IsDict(file.data[i]) /\ file.data[i].title # None
    /\ \E i \in 1..Len(file.data) : file.data[i].created_at = None

\* open(path, "w") followed by json.dump, with the outcome w of the write:
\* "ok"; "denied" (open raises, the file is untouched); "truncated" (open has
\* emptied the file and the dump raises).
WriteOutcomes == {"ok", "denied", "truncated"}

writeFile(file, data, w) ==
    CASE w = "ok" -> JsonFile(data)
      [] w = "denied" -> file
      [] w = "truncated" -> CorruptFile

\* save that writes the open tasks only.
save_open_only(ts, file, w) ==
    writeFile(file, dump(SelectSeq(ts, LAMBDA t : t.status = "open")), w)

\* TaskManager.save
save(ts, file, w) == writeFile(file, dump(ts), w)

\* TaskManager.all_open_tasks
all_open_tasks(ts) == SelectSeq(ts, LAMBDA t : t.status = "open")

\* ------------------------------------------------------- task operations
\* archive_task without its hasattr guard: original_category always overwritten.
archive_task_overwrites(t, comment, now) ==
    [t EXCEPT !.status = "done",
              !.original_category = Some(t.category),
              !.completed_at = Some(now),
              !.closing_comment = comment]

\* archive_task that forgets completed_at.
archive_task_no_completed_at(t, comment, now) ==
    [t EXCEPT !.status = "done",
              !.original_category =
                  IF Falsy(t.original_category) THEN Some(t.category)
                  ELSE t.original_category,
              !.closing_comment = comment]

\* TaskManager.archive_task, the mutations of the task (the save follows).
archive_task(t, comment, now) ==
    [t EXCEPT !.status = "done",
              !.original_category =
                  IF Falsy(t.original_category) THEN Some(t.category)
                  ELSE t.original_category,
              !.completed_at = Some(now),
              !.closing_comment = comment]

\* save_task without its title check.
save_task_valid_category_only(titleText, comboText) ==
    lower(strip(comboText)) \in Canonical

\* CreateTaskDialog.save_task: the two validations.
save_task_valid(titleText, comboText) ==
    /\ strip(titleText) # <<>>
    /\ lower(strip(comboText)) \in Canonical

\* CreateTaskDialog.save_task: the task it constructs.
save_task(titleText, descText, qdate, comboText, now) ==
    Task(strip(titleText), lower(strip(comboText)), Some(toString(qdate)), "open",
         None, None, None, Some(strip(descText)), now)

\* save_changes that also wipes the traces of an earlier archive.
save_changes_clears_completion(t, titleText, descText, qdate, comboText) ==
    [t EXCEPT !.title = strip(titleText),
              !.description = Some(strip(descText)),
              !.due_date = Some(toString(qdate)),
              !.category = IF lower(strip(comboText)) \in Canonical
                           THEN lower(strip(comboText)) ELSE t.category,
              !.completed_at = None,
              !.closing_comment = None]

\* EditTaskDialog.save_changes, the mutations of the task.
save_changes(t, titleText, descText, qdate, comboText) ==
    LET cat == lower(strip(comboText))
    IN  [t EXCEPT !.title = strip(titleText),
                  !.description = Some(strip(descText)),
                  !.due_date = Some(toString(qdate)),
                  !.category = IF cat \in Canonical THEN cat ELSE t.category]

\* restore_task that reopens the task where it is, ignoring original_category.
restore_task_in_place(t) ==
    [t EXCEPT !.category = norm_cat(Some(t.category)), !.status = "open"]

\* restore_task that also wipes what the archive wrote.
restore_task_clears_completion(t) ==
    [t EXCEPT !.category = norm_cat(IF Falsy(t.original_category) THEN Some(t.category)
                                    ELSE t.original_category),
              !.status = "open",
              !.completed_at = None,
              !.closing_comment = None]

\* ArchiveTaskDialog.restore_task, the mutations of the task.
restore_task(t) ==
    LET cat0 == IF Falsy(t.original_category) THEN Some(t.category)
                ELSE t.original_category
        cat1 == lower(strip(IF cat0 = None THEN <<>> ELSE Val(cat0)))
        cat2 == IF cat1 = ASK THEN DELEGATE ELSE cat1
        cat3 == IF cat2 \notin Canonical THEN PLAN ELSE cat2
    IN  [t EXCEPT !.category = cat3, !.status = "open"]

\* dropEvent without the original_category update.
dropEvent_mark_skipped(t, new) == t

\* CategoryList.dropEvent up to the question box: original_category = new.
dropEvent_mark(t, new) == [t EXCEPT !.original_category = Some(new)]

\* CategoryList.dropEvent after the question box: category = new.
dropEvent_move(t, new) == [t EXCEPT !.category = new]

\* MatrixView.ask_deadline_update, accepted: due_date = selected date.
ask_deadline_update(t, qdate) == [t EXCEPT !.due_date = Some(toString(qdate))]

\* A refresh that leaves the stored category as it is.
refresh_keeps_category(t) == t

\* MatrixView.refresh: every open task's category is rewritten normalized.
refresh_normalize(t) ==
    IF t.status = "open" THEN [t EXCEPT !.category = norm_cat(Some(t.category))] ELSE t

\* ------------------------------------------------------------------ sorting
\* Code points of the characters titles and due dates are made of here:
\* str < str compares them.
CodePoint(c) == CASE c = " " -> 32 [] c = "A" -> 65 [] c = "B" -> 66
                  [] c = "a" -> 97 [] c = "b" -> 98 [] c = "x" -> 120
                  [] c = "-" -> 45 [] c \in Digits -> 48 + DigitVal(c)

\* s < t for Python strings.
RECURSIVE StrLess(_, _)
StrLess(s, t) ==
    IF t = <<>> THEN FALSE
    ELSE IF s = <<>> THEN TRUE
    ELSE IF Head(s) # Head(t) THEN CodePoint(Head(s)) < CodePoint(Head(t))
    ELSE StrLess(Tail(s), Tail(t))

\* MatrixView.refresh.parse_due: None when missing or invalid.
parse_due(t) == IF Falsy(t.due_date) THEN None ELSE strptime(Val(t.due_date))

\* MatrixView.refresh.parse_created_at: the tick of the timestamp; tick 0
\* stands for a text fromisoformat rejects, which gives datetime.min.
parse_created_at(t) == IF t.created_at >= 1 THEN t.created_at ELSE 0

\* datetime.max, as a date.
DateMax == <<9999, 12, 31>>

\* sort_key without the created_at component.
sort_key_no_created_at(t) ==
    [nodue |-> parse_due(t) = None,
     due |-> IF parse_due(t) = None THEN DateMax ELSE Val(parse_due(t)),
     created |-> 0,
     title |-> t.title]

\* MatrixView.refresh.sort_key
sort_key(t) ==
    [nodue |-> parse_due(t) = None,
     due |-> IF parse_due(t) = None THEN DateMax ELSE Val(parse_due(t)),
     created |-> parse_created_at(t),
     title |-> t.title]

\* k1 < k2 for the key tuples (False < True, then component by component).
KeyLess(k1, k2) ==
    IF k1.nodue # k2.nodue THEN ~k1.nodue
    ELSE IF k1.due # k2.due THEN DateLess(k1.due, k2.due)
    ELSE IF k1.created # k2.created THEN k1.created < k2.created
    ELSE StrLess(k1.title, k2.title)

\* list.sort(key=sort_key) is stable: an element goes behind those that are
\* not greater than it.
RECURSIVE insert(_, _)
insert(x, out) ==
    IF out = <<>> THEN <<x>>
    ELSE IF KeyLess(sort_key(x), sort_key(Head(out))) THEN <<x>> \o out
    ELSE <<Head(out)>> \o insert(x, Tail(out))

RECURSIVE sort(_)
sort(ts) == IF ts = <<>> THEN <<>> ELSE insert(ts[Len(ts)], sort(SubSeq(ts, 1, Len(ts) - 1)))

\* MatrixView.refresh: the four buckets of the open tasks, each sorted.
buckets(ts) ==
    LET open == all_open_tasks([i \in 1..Len(ts) |-> refresh_normalize(ts[i])])
    IN  [c \in Canonical |-> sort(SelectSeq(open, LAMBDA t : t.category = c))]

\* TimelineView.refresh: the key of its sort, (t.due_date is None, t.due_date or "").
timeline_key(t) ==
    [nodue |-> t.due_date = None,
     due |-> IF Falsy(t.due_date) THEN <<>> ELSE Val(t.due_date)]

\* k1 < k2 for the timeline's key tuples: a bool, then a string.
TimelineLess(k1, k2) ==
    IF k1.nodue # k2.nodue THEN ~k1.nodue ELSE StrLess(k1.due, k2.due)

RECURSIVE timeline_insert(_, _)
timeline_insert(x, out) ==
    IF out = <<>> THEN <<x>>
    ELSE IF TimelineLess(timeline_key(x), timeline_key(Head(out))) THEN <<x>> \o out
    ELSE <<Head(out)>> \o timeline_insert(x, Tail(out))

\* tasks.sort(key=...) in TimelineView.refresh (stable).
RECURSIVE timeline_sort(_)
timeline_sort(ts) ==
    IF ts = <<>> THEN <<>>
    ELSE timeline_insert(ts[Len(ts)], timeline_sort(SubSeq(ts, 1, Len(ts) - 1)))

\* TimelineView.refresh: the rows of the list, in order.
timeline(ts) == timeline_sort(all_open_tasks(ts))

\* ------------------------------------------------------------------ topics
\* datetime.isoformat() of a QDate at midnight (TopicDialog.save_and_close.to_iso).
to_iso(qd) == toString(qd) \o <<"T", "0", "0", ":", "0", "0", ":", "0", "0">>

\* datetime.now().isoformat() at tick n, where the code stores it in a string field.
isoformat(n) == <<"t", Digit(n)>>

\* Topic.__init__
Topic(question, asked_to, asked_at, deadline, status, category, priority, channel, reminder_date, tags, answer, history, attachments, created_at, answered_at, now) ==
    [question |-> question,
     asked_to |-> asked_to,
     asked_at |-> IF Falsy(asked_at) THEN Some(isoformat(now)) ELSE asked_at,
     deadline |-> deadline,
     status |-> status,
     category |-> category,
     priority |-> priority,
     channel |-> channel,
     reminder_date |-> reminder_date,
     tags |-> tags,
     answer |-> answer,
     history |-> history,
     attachments |-> attachments,
     created_at |-> IF created_at = None THEN now ELSE Val(created_at),
     answered_at |-> answered_at]

\* Topic.to_dict
topic_to_dict(t) ==
    [question |-> t.question,
     asked_to |-> t.asked_to,
     asked_at |-> t.asked_at,
     deadline |-> t.deadline,
     status |-> t.status,
     category |-> t.category,
     priority |-> t.priority,
     channel |-> t.channel,
     reminder_date |-> t.reminder_date,
     tags |-> t.tags,
     answer |-> t.answer,
     history |-> t.history,
     attachments |-> t.attachments,
     created_at |-> Some(t.created_at),
     answered_at |-> t.answered_at]

\* Topic.from_dict
topic_from_dict(d, now) ==
    Topic(d.question, d.asked_to, d.asked_at, d.deadline, d.status, d.category,
          d.priority, d.channel, d.reminder_date, d.tags, d.answer, d.history,
          d.attachments, d.created_at, d.answered_at, now)

\* json.dump([t.to_dict() for t in self.topics])
dumpTopics(tps) == [i \in 1..Len(tps) |-> topic_to_dict(tps[i])]

\* TopicManager.load
loadTopics(file, now) ==
    IF file.kind = "json" /\ \A i \in 1..Len(file.data) : IsDict(file.data[i])
    THEN [i \in 1..Len(file.data) |-> topic_from_dict(file.data[i], now)]
    ELSE <<>>

\* TopicManager.save
saveTopics(tps, file, w) == writeFile(file, dumpTopics(tps), w)

\* A validation that looks at the question alone.
save_and_close_valid_question_only(form) ==
    strip(form.question) # <<>>

\* TopicDialog.save_and_close: the validation of the form.
save_and_close_valid(form) ==
    strip(form.question) # <<>> /\ strip(form.asked_to) # <<>>

\* TopicDialog.save_and_close, new topic: the topic handed to add_topic.  The
\* constructor takes created_at at tick now; answered_at, if set, the next tick.
save_and_close_new(form, now) ==
    LET t == Topic(strip(form.question), strip(form.asked_to), Some(to_iso(form.asked_at)),
                   Some(to_iso(form.deadline)), form.status, strip(form.category),
                   form.priority, strip(form.channel), Some(to_iso(form.reminder_date)),
                   <<>>, strip(form.answer), strip(form.history), <<>>, None, None, now)
    IN  IF t.status = "answered" THEN [t EXCEPT !.answered_at = Some(now + 1)] ELSE t

\* save_and_close that stamps answered_at on every save as "answered".
save_and_close_update_restamps(t, form, now) ==
    [t EXCEPT !.question = strip(form.question),
              !.asked_to = strip(form.asked_to),
              !.asked_at = Some(to_iso(form.asked_at)),
              !.deadline = Some(to_iso(form.deadline)),
              !.status = form.status,
              !.category = strip(form.category),
              !.priority = form.priority,
              !.channel = strip(form.channel),
              !.reminder_date = Some(to_iso(form.reminder_date)),
              !.answer = strip(form.answer),
              !.history = strip(form.history),
              !.answered_at = IF form.status = "answered" THEN Some(now) ELSE t.answered_at]

\* TopicDialog.save_and_close, existing topic: the mutations of the topic.
save_and_close_update(t, form, now) ==
    LET t1 == [t EXCEPT !.question = strip(form.question),
                        !.asked_to = strip(form.asked_to),
                        !.asked_at = Some(to_iso(form.asked_at)),
                        !.deadline = Some(to_iso(form.deadline)),
                        !.status = form.status,
                        !.category = strip(form.category),
                        !.priority = form.priority,
                        !.channel = strip(form.channel),
                        !.reminder_date = Some(to_iso(form.reminder_date)),
                        !.answer = strip(form.answer),
                        !.history = strip(form.history)]
    IN  IF t1.status = "answered" /\ t1.answered_at = None
        THEN [t1 EXCEPT !.answered_at = Some(now)] ELSE t1

\* ------------------------------------------------------------------ state
VARIABLES
    phase,              \* "off" before main() has run, then "running"
    tasks,              \* TaskManager.tasks
    store,              \* the file DATA_FILE
    topics,             \* TopicManager.topics
    topicStore,         \* the file TOPICS_FILE
    last_dragged_task,  \* MatrixView.last_dragged_task: None or a task
    prompt,             \* dropEvent waiting in its question box: None or <<[task, new]>>
    matrixItems,        \* tasks held by the items of the four CategoryLists
    timelineItems,      \* tasks held by the items of the timeline list
    archiveItems,       \* tasks held by the items of the archive list
    topicItems,         \* topics held by the rows of the topics table
    clock,              \* ticks of datetime.now() so far
    failedWrites,       \* writes that have failed so far
    last,               \* the command that ran last and how it ended
    call,               \* a helper function called on its own: None or <<arguments>>
    ret                 \* what that call returned: None or <<value>>

vars == <<phase, tasks, store, topics, topicStore, last_dragged_task, prompt,
          matrixItems, timelineItems, archiveItems, topicItems, clock, failedWrites, last,
          call, ret>>

views == <<matrixItems, timelineItems, archiveItems, topicItems>>

\* A task object is named by its created_at.
Ids(ts) == {ts[i].created_at : i \in 1..Len(ts)}
OpenIds(ts) == {ts[i].created_at : i \in {j \in 1..Len(ts) : ts[j].status = "open"}}
DoneIds(ts) == {ts[i].created_at : i \in {j \in 1..Len(ts) : ts[j].status = "done"}}
TaskOf(ts, id) == ts[CHOOSE i \in 1..Len(ts) : ts[i].created_at = id]

\* tasks.remove that drops the head of the list, whatever it is.
remove_head(ts, id) == Tail(ts)

\* tasks.remove(task)
remove(ts, id) == SelectSeq(ts, LAMBDA t : t.created_at # id)

\* ----------------------------------------------------------------- inputs
TitleTexts == {<<" ">>, <<" ", "a">>}
DescTexts == {<<"x", " ">>}
CommentTexts == {<<"c", " ">>}
FormDates == {<<2024, 1, 5>>}
DeadlineDates == {<<2024, 1, 5>>}
CreateChoices == {<<>>, ComboDo}
EditChoices == {ComboDo, ComboDelegate}
DropTargets == {DO, DELEGATE}

\* A store left by an older version: a task in the legacy quadrant "ask" and
\* an archived task.
LegacyData ==
    << [title |-> Some(<<"a">>), category |-> ASK, due_date |-> None,
        status |-> "open", created_at |-> Some(1), completed_at |-> None,
        closing_comment |-> None, description |-> None],
       [title |-> Some(<<"a">>), category |-> DO, due_date |-> Some(toString(<<2024, 1, 5>>)),
        status |-> "done", created_at |-> Some(2), completed_at |-> Some(2),
        closing_comment |-> None, description |-> None] >>

InitialStores == {MissingFile, CorruptFile, JsonFile(<<>>), JsonFile(LegacyData)}

\* The write that fails in a handler (0: none) and how it fails.
Failing(k) == IF failedWrites < MaxWriteFailures THEN 0..k ELSE {0}
Modes(f) == IF f = 0 THEN {"ok"} ELSE {"denied", "truncated"}
W(f, mode, i) == IF f = i THEN mode ELSE "ok"

\* MainWindow.refresh_all_views on the collection ts with the files st, tst:
\* matrix refresh (normalizes), the other refreshes, manager.save(),
\* topic_manager.save(); w1 and w2 are the outcomes of the two writes.
refresh_all_views(ts, st, tst, w1, w2) ==
    LET ts1 == [i \in 1..Len(ts) |-> refresh_normalize(ts[i])]
    IN  [tasks |-> ts1,
         store |-> save(ts1, st, w1),
         topicStore |-> IF w1 = "ok" THEN saveTopics(topics, tst, w2) ELSE tst,
         raised |-> w1 # "ok" \/ w2 # "ok"]

TopicIds(tps) == {tps[i].created_at : i \in 1..Len(tps)}

\* A handler's tail: manager.save() on the mutated collection ts1 (the files
\* being st0 and tst0, the views' items vw) and, when it did not raise,
\* accept() and the caller's refresh_all_views.
SaveAndRefreshFrom(ts1, st0, tst0, vw, f, mode) ==
    LET w1 == W(f, mode, 1)
        st1 == save(ts1, st0, w1)
        R == refresh_all_views(ts1, st1, tst0, W(f, mode, 2), W(f, mode, 3))
    IN  /\ failedWrites' = failedWrites + (IF f = 0 THEN 0 ELSE 1)
        /\ IF w1 # "ok"
           THEN /\ tasks' = ts1
                /\ store' = st1
                /\ topicStore' = tst0
                /\ last' = [outcome |-> "raised"]
                /\ matrixItems' = vw[1]
                /\ timelineItems' = vw[2]
                /\ archiveItems' = vw[3]
                /\ topicItems' = vw[4]
           ELSE /\ tasks' = R.tasks
                /\ store' = R.store
                /\ topicStore' = R.topicStore
                /\ matrixItems' = OpenIds(R.tasks)
                /\ timelineItems' = OpenIds(R.tasks)
                /\ archiveItems' = DoneIds(R.tasks)
                /\ topicItems' = TopicIds(topics)
                /\ last' = [outcome |-> IF R.raised THEN "raised" ELSE "ok"]

SaveAndRefresh(ts1, f, mode) ==
    SaveAndRefreshFrom(ts1, store, topicStore, views, f, mode)

Interactive == phase = "running" /\ prompt = None

\* ------------------------------------------------------------------ actions
Init ==
    /\ phase = "off"
    /\ tasks = <<>>
    /\ store \in InitialStores
    /\ topics = <<>>
    /\ topicStore = MissingFile
    /\ last_dragged_task = None
    /\ prompt = None
    /\ matrixItems = {}
    /\ timelineItems = {}
    /\ archiveItems = {}
    /\ topicItems = {}
    /\ clock = 2
    /\ failedWrites = 0
    /\ last = [outcome |-> "ok"]
    /\ call = None
    /\ ret = None

\* main(): MainWindow.__init__ loads both collections, init_ui builds the views
\* (each refreshes itself) and ends with refresh_all_views.  Also a restart of
\* the application.  A write that raises here ends the process.
Startup(f, mode) ==
    /\ prompt = None
    /\ loadUsesClock(store) => clock < MaxClock
    /\ LET ts0 == load(store, clock + 1)
           tps0 == loadTopics(topicStore, clock + 1)
           ts1 == [i \in 1..Len(ts0) |-> refresh_normalize(ts0[i])]
           w1 == W(f, mode, 1)
           w2 == W(f, mode, 2)
       IN  /\ phase' = IF f = 0 THEN "running" ELSE "off"
           /\ tasks' = IF f = 0 THEN ts1 ELSE <<>>
           /\ topics' = IF f = 0 THEN tps0 ELSE <<>>
           /\ store' = save(ts1, store, w1)
           /\ topicStore' = IF w1 = "ok" THEN saveTopics(tps0, topicStore, w2) ELSE topicStore
           /\ matrixItems' = IF f = 0 THEN OpenIds(ts1) ELSE {}
           /\ timelineItems' = IF f = 0 THEN OpenIds(ts1) ELSE {}
           /\ archiveItems' = IF f = 0 THEN DoneIds(ts1) ELSE {}
           /\ topicItems' = IF f = 0 THEN TopicIds(tps0) ELSE {}
           /\ last_dragged_task' = None
           /\ clock' = IF loadUsesClock(store) THEN clock + 1 ELSE clock
           /\ failedWrites' = failedWrites + (IF f = 0 THEN 0 ELSE 1)
           /\ last' = [outcome |-> IF f = 0 THEN "ok" ELSE "raised"]
           /\ UNCHANGED prompt
    /\ UNCHANGED <<call, ret>>

\* MainWindow.open_create_task_dialog with CreateTaskDialog.save_task.
CreateTask(titleText, descText, qdate, comboText, f, mode) ==
    /\ Interactive
    /\ Len(tasks) < MaxTasks
    /\ clock < MaxClock
    /\ IF ~save_task_valid(titleText, comboText)
       THEN /\ f = 0
            /\ last' = [outcome |-> "rejected", op |-> "save_task"]
            /\ UNCHANGED <<phase, tasks, store, topics, topicStore, last_dragged_task,
                           prompt, views, clock, failedWrites>>
       ELSE /\ clock' = clock + 1
            /\ SaveAndRefresh(Append(tasks, save_task(titleText, descText, qdate, comboText, clock + 1)),
                   f, mode)
            /\ UNCHANGED <<phase, topics, last_dragged_task, prompt>>
    /\ UNCHANGED <<call, ret>>

\* edit_task_from_item (matrix or timeline) with EditTaskDialog.save_changes.
EditTask(id, titleText, descText, qdate, comboText, f, mode) ==
    /\ Interactive
    /\ id \in matrixItems \cup timelineItems
    /\ SaveAndRefresh([i \in 1..Len(tasks) |->
               IF tasks[i].created_at = id
               THEN save_changes(tasks[i], titleText, descText, qdate, comboText)
               ELSE tasks[i]],
           f, mode)
    /\ UNCHANGED <<phase, topics, last_dragged_task, prompt, clock>>
    /\ UNCHANGED <<call, ret>>

\* EditTaskDialog.close_task: the comment box, stripped, or None when empty.
close_task_comment(commentText) ==
    IF strip(commentText) # <<>> THEN Some(strip(commentText)) ELSE None

\* edit_task_from_item with EditTaskDialog.close_task (archive).
CloseTask(id, commentText, f, mode) ==
    /\ Interactive
    /\ id \in matrixItems \cup timelineItems
    /\ clock < MaxClock
    /\ clock' = clock + 1
    /\ SaveAndRefresh([i \in 1..Len(tasks) |->
               IF tasks[i].created_at = id
               THEN archive_task(tasks[i], close_task_comment(commentText), clock + 1)
               ELSE tasks[i]],
           f, mode)
    /\ UNCHANGED <<phase, topics, last_dragged_task, prompt>>
    /\ UNCHANGED <<call, ret>>

\* ArchiveView.open_archived_task with ArchiveTaskDialog.restore_task.
RestoreTask(id, f, mode) ==
    /\ Interactive
    /\ id \in archiveItems
    /\ SaveAndRefresh([i \in 1..Len(tasks) |->
               IF tasks[i].created_at = id THEN restore_task(tasks[i]) ELSE tasks[i]],
           f, mode)
    /\ UNCHANGED <<phase, topics, last_dragged_task, prompt, clock>>
    /\ UNCHANGED <<call, ret>>

\* ArchiveTaskDialog.delete_task: the confirmation box, tasks.remove (which
\* raises ValueError when the task is no longer in the list), save, accept.
DeleteTask(id, confirm, f, mode) ==
    /\ Interactive
    /\ id \in archiveItems
    /\ IF ~confirm
       THEN /\ f = 0
            /\ last' = [outcome |-> "ok"]
            /\ UNCHANGED <<phase, tasks, store, topics, topicStore, last_dragged_task,
                           prompt, views, clock, failedWrites>>
       ELSE IF id \notin Ids(tasks)
       THEN /\ f = 0
            /\ last' = [outcome |-> "raised"]
            /\ UNCHANGED <<phase, tasks, store, topics, topicStore, last_dragged_task,
                           prompt, views, clock, failedWrites>>
       ELSE /\ SaveAndRefresh(remove(tasks, id), f, mode)
            /\ UNCHANGED <<phase, topics, last_dragged_task, prompt, clock>>
    /\ UNCHANGED <<call, ret>>

\* ArchiveView.delete_selected: as delete_task, but only the archive list is
\* refreshed afterwards.
DeleteSelected(id, confirm, f, mode) ==
    /\ Interactive
    /\ id \in archiveItems
    /\ IF ~confirm
       THEN /\ f = 0
            /\ last' = [outcome |-> "ok"]
            /\ UNCHANGED <<phase, tasks, store, topics, topicStore, last_dragged_task,
                           prompt, views, clock, failedWrites>>
       ELSE IF id \notin Ids(tasks)
       THEN /\ f = 0
            /\ last' = [outcome |-> "raised"]
            /\ UNCHANGED <<phase, tasks, store, topics, topicStore, last_dragged_task,
                           prompt, views, clock, failedWrites>>
       ELSE LET ts1 == remove(tasks, id)
                w1 == W(f, mode, 1)
            IN  /\ tasks' = ts1
                /\ store' = save(ts1, store, w1)
                /\ archiveItems' = IF w1 = "ok" THEN DoneIds(ts1) ELSE archiveItems
                /\ failedWrites' = failedWrites + (IF f = 0 THEN 0 ELSE 1)
                /\ last' = [outcome |-> IF w1 = "ok" THEN "ok" ELSE "raised"]
                /\ UNCHANGED <<phase, topics, topicStore, last_dragged_task, prompt,
                               matrixItems, timelineItems, topicItems, clock>>
    /\ UNCHANGED <<call, ret>>

\* ArchiveView.clear_archive.
ClearArchive(confirm, f, mode) ==
    /\ Interactive
    /\ IF ~confirm
       THEN /\ f = 0
            /\ last' = [outcome |-> "ok"]
            /\ UNCHANGED <<phase, tasks, store, topics, topicStore, last_dragged_task,
                           prompt, views, clock, failedWrites>>
       ELSE /\ SaveAndRefresh(SelectSeq(tasks, LAMBDA t : t.status # "done"), f, mode)
            /\ UNCHANGED <<phase, topics, last_dragged_task, prompt, clock>>
    /\ UNCHANGED <<call, ret>>

\* CategoryList.startDrag: the task of the current item goes into the slot.
\* The drag may end on a quadrant (dropEvent) or anywhere else (no event).
StartDrag(id) ==
    /\ Interactive
    /\ id \in matrixItems
    /\ last_dragged_task' = Some(id)
    /\ last' = [outcome |-> "ok"]
    /\ UNCHANGED <<phase, tasks, store, topics, topicStore, prompt, views, clock,
                   failedWrites>>
    /\ UNCHANGED <<call, ret>>

\* CategoryList.dropEvent on the quadrant `new`, up to the question box.  The
\* event comes from a drag started here or from any other drag source.
DropEvent(new) ==
    /\ Interactive
    /\ last_dragged_task' = None
    /\ IF last_dragged_task = None
       THEN /\ last' = [outcome |-> "ok"]
            /\ UNCHANGED <<tasks, prompt>>
       ELSE LET id == Val(last_dragged_task)
            IN  IF id \in Ids(tasks) /\ TaskOf(tasks, id).category = new
                THEN /\ last' = [outcome |-> "ok"]
                     /\ UNCHANGED <<tasks, prompt>>
                ELSE /\ tasks' = [i \in 1..Len(tasks) |->
                                    IF tasks[i].created_at = id
                                    THEN dropEvent_mark(tasks[i], new) ELSE tasks[i]]
                     /\ prompt' = Some([task |-> id, new |-> new])
                     /\ last' = [outcome |-> "ok"]
    /\ UNCHANGED <<phase, store, topics, topicStore, views, clock, failedWrites>>
    /\ UNCHANGED <<call, ret>>

\* CategoryList.dropEvent from the answer of the question box on: category =
\* new; on Yes ask_deadline_update (its calendar dialog accepted or cancelled;
\* accepted, it sets due_date and calls refresh_all_views, whose writes are
\* numbered 4 and 5 here); manager.save(); refresh_all_views.
DropAnswer(yes, accepted, qdate, f, mode) ==
    /\ phase = "running"
    /\ prompt # None
    /\ LET id == Val(prompt).task
           new == Val(prompt).new
           ts1 == [i \in 1..Len(tasks) |->
                     IF tasks[i].created_at = id
                     THEN dropEvent_move(tasks[i], new) ELSE tasks[i]]
           ts2 == [i \in 1..Len(ts1) |->
                     IF ts1[i].created_at = id
                     THEN ask_deadline_update(ts1[i], qdate) ELSE ts1[i]]
           R == refresh_all_views(ts2, store, topicStore, W(f, mode, 4), W(f, mode, 5))
       IN  /\ prompt' = None
           /\ IF yes /\ accepted
              THEN IF f \in {4, 5}
                   THEN /\ tasks' = R.tasks
                        /\ store' = R.store
                        /\ topicStore' = R.topicStore
                        /\ matrixItems' = OpenIds(R.tasks)
                        /\ timelineItems' = OpenIds(R.tasks)
                        /\ archiveItems' = DoneIds(R.tasks)
                        /\ topicItems' = TopicIds(topics)
                        /\ failedWrites' = failedWrites + 1
                        /\ last' = [outcome |-> "raised"]
                   ELSE SaveAndRefreshFrom(R.tasks, R.store, R.topicStore,
                            <<OpenIds(R.tasks), OpenIds(R.tasks), DoneIds(R.tasks),
                              TopicIds(topics)>>, f, mode)
              ELSE /\ f \notin {4, 5}
                   /\ SaveAndRefresh(ts1, f, mode)
    /\ UNCHANGED <<phase, topics, last_dragged_task, clock>>
    /\ UNCHANGED <<call, ret>>

\* MatrixView.resizeEvent: the matrix alone refreshes (and normalizes).
ResizeEvent ==
    /\ Interactive
    /\ tasks' = [i \in 1..Len(tasks) |-> refresh_normalize(tasks[i])]
    /\ matrixItems' = OpenIds(tasks)
    /\ last' = [outcome |-> "ok"]
    /\ UNCHANGED <<phase, store, topics, topicStore, last_dragged_task, prompt,
                   timelineItems, archiveItems, topicItems, clock, failedWrites>>
    /\ UNCHANGED <<call, ret>>

\* TopicsView.new_topic with TopicDialog.save_and_close (topic is None).
TopicNew(form, f, mode) ==
    /\ Interactive
    /\ Len(topics) < MaxTopics
    /\ clock + (IF form.status = "answered" THEN 2 ELSE 1) <= MaxClock
    /\ IF ~save_and_close_valid(form)
       THEN /\ f = 0
            /\ last' = [outcome |-> "rejected", op |-> "save_and_close"]
            /\ UNCHANGED <<phase, tasks, store, topics, topicStore, last_dragged_task,
                           prompt, views, clock, failedWrites>>
       ELSE LET tps1 == Append(topics, save_and_close_new(form, clock + 1))
                w1 == W(f, mode, 1)
            IN  /\ topics' = tps1
                /\ topicStore' = saveTopics(tps1, topicStore, w1)
                /\ topicItems' = IF w1 = "ok" THEN TopicIds(tps1) ELSE topicItems
                /\ clock' = clock + (IF form.status = "answered" THEN 2 ELSE 1)
                /\ failedWrites' = failedWrites + (IF f = 0 THEN 0 ELSE 1)
                /\ last' = [outcome |-> IF w1 = "ok" THEN "ok" ELSE "raised"]
                /\ UNCHANGED <<phase, tasks, store, last_dragged_task, prompt,
                               matrixItems, timelineItems, archiveItems>>
    /\ UNCHANGED <<call, ret>>

\* TopicsView.edit_selected_topic with TopicDialog.save_and_close.
TopicEdit(id, form, f, mode) ==
    /\ Interactive
    /\ id \in topicItems
    /\ (/\ form.status = "answered"
        /\ \E i \in 1..Len(topics) :
              topics[i].created_at = id /\ topics[i].answered_at = None)
       => clock < MaxClock
    /\ IF ~save_and_close_valid(form)
       THEN /\ f = 0
            /\ last' = [outcome |-> "rejected", op |-> "save_and_close"]
            /\ UNCHANGED <<phase, tasks, store, topics, topicStore, last_dragged_task,
                           prompt, views, clock, failedWrites>>
       ELSE LET tps1 == [i \in 1..Len(topics) |->
                           IF topics[i].created_at = id
                           THEN save_and_close_update(topics[i], form, clock + 1)
                           ELSE topics[i]]
                w1 == W(f, mode, 1)
            IN  /\ topics' = tps1
                /\ topicStore' = saveTopics(tps1, topicStore, w1)
                /\ topicItems' = IF w1 = "ok" THEN TopicIds(tps1) ELSE topicItems
                /\ clock' = IF \E i \in 1..Len(topics) :
                                  tps1[i].answered_at # topics[i].answered_at
                             THEN clock + 1 ELSE clock
                /\ failedWrites' = failedWrites + (IF f = 0 THEN 0 ELSE 1)
                /\ last' = [outcome |-> IF w1 = "ok" THEN "ok" ELSE "raised"]
                /\ UNCHANGED <<phase, tasks, store, last_dragged_task, prompt,
                               matrixItems, timelineItems, archiveItems>>
    /\ UNCHANGED <<call, ret>>

\* datetime.fromisoformat(s).date() for the two forms the files hold here,
\* "YYYY-MM-DD" and "YYYY-MM-DDThh:mm:ss"; None stands for the ValueError.
fromisoformat_date(s) ==
    IF Len(s) = 10 THEN fromString(s)
    ELSE IF /\ Len(s) = 19
            /\ s[11] = "T" /\ s[14] = ":" /\ s[17] = ":"
            /\ AllDigits(SubSeq(s, 12, 13)) /\ AllDigits(SubSeq(s, 15, 16))
            /\ AllDigits(SubSeq(s, 18, 19))
            /\ Number(SubSeq(s, 12, 13)) < 24 /\ Number(SubSeq(s, 15, 16)) < 60
            /\ Number(SubSeq(s, 18, 19)) < 60
    THEN fromString(SubSeq(s, 1, 10))
    ELSE None

\* The deadline colour that does not look at the status.
deadline_color_any_status(deadline, status, today) ==
    IF Falsy(deadline) \/ fromisoformat_date(Val(deadline)) = None THEN "default"
    ELSE LET due == Val(fromisoformat_date(Val(deadline)))
         IN  IF DateLess(due, today) THEN "red"
             ELSE IF due = today THEN "#e67e22"
             ELSE "default"

\* TopicsView.refresh: the colour of the deadline cell (red: overdue),
\* datetime.now().date() being `today`.
deadline_color(deadline, status, today) ==
    IF Falsy(deadline) \/ fromisoformat_date(Val(deadline)) = None THEN "default"
    ELSE LET due == Val(fromisoformat_date(Val(deadline)))
         IN  IF DateLess(due, today) /\ status # "answered" THEN "red"
             ELSE IF (DateLess(due, today) \/ due = today) /\ status # "answered"
                  THEN "#e67e22"
             ELSE "default"

\* TopicManager.delete_topic: remove and save, only if the topic is in the list.
delete_topic(tps, id) == SelectSeq(tps, LAMBDA t : t.created_at # id)

\* TopicsView.delete_selected_topic.
TopicDelete(id, confirm, f, mode) ==
    /\ Interactive
    /\ id \in topicItems
    /\ IF ~confirm
       THEN /\ f = 0
            /\ last' = [outcome |-> "ok"]
            /\ UNCHANGED <<phase, tasks, store, topics, topicStore, last_dragged_task,
                           prompt, views, clock, failedWrites>>
       ELSE LET present == id \in TopicIds(topics)
                tps1 == delete_topic(topics, id)
                w1 == IF present THEN W(f, mode, 1) ELSE "ok"
            IN  /\ present \/ f = 0
                /\ topics' = tps1
                /\ topicStore' = IF present THEN saveTopics(tps1, topicStore, w1)
                                  ELSE topicStore
                /\ topicItems' = IF w1 = "ok" THEN TopicIds(tps1) ELSE topicItems
                /\ failedWrites' = failedWrites + (IF f = 0 THEN 0 ELSE 1)
                /\ last' = [outcome |-> IF w1 = "ok" THEN "ok" ELSE "raised"]
                /\ UNCHANGED <<phase, tasks, store, last_dragged_task, prompt,
                               matrixItems, timelineItems, archiveItems, clock>>
    /\ UNCHANGED <<call, ret>>

\* The commands with every write succeeding.
Next ==
    \/ Startup(0, "ok")
    \/ \E tt \in TitleTexts, dt \in DescTexts, qd \in FormDates, ct \in CreateChoices :
          CreateTask(tt, dt, qd, ct, 0, "ok")
    \/ \E id \in 1..MaxClock, tt \in TitleTexts, dt \in DescTexts, qd \in FormDates,
          ct \in EditChoices : EditTask(id, tt, dt, qd, ct, 0, "ok")
    \/ \E id \in 1..MaxClock, cm \in CommentTexts : CloseTask(id, cm, 0, "ok")
    \/ \E id \in 1..MaxClock : RestoreTask(id, 0, "ok")
    \/ \E id \in 1..MaxClock, confirm \in BOOLEAN : DeleteTask(id, confirm, 0, "ok")
    \/ \E id \in 1..MaxClock, confirm \in BOOLEAN : DeleteSelected(id, confirm, 0, "ok")
    \/ \E confirm \in BOOLEAN : ClearArchive(confirm, 0, "ok")
    \/ \E id \in 1..MaxClock : StartDrag(id)
    \/ \E new \in DropTargets : DropEvent(new)
    \/ \E yes \in BOOLEAN, accepted \in BOOLEAN, qd \in DeadlineDates :
          DropAnswer(yes, accepted, qd, 0, "ok")
    \/ ResizeEvent

Spec == Init /\ [][Next]_vars

\* The commands on a disk whose writes may fail (at most MaxWriteFailures
\* times), with one value for each input.
IOTitles == {<<" ", "a">>}
IOChoices == {ComboDo}
IOTargets == {DO}

NextIO ==
    \/ \E f \in Failing(2), mode \in WriteOutcomes :
          mode \in Modes(f) /\ Startup(f, mode)
    \/ \E tt \in IOTitles, dt \in DescTexts, qd \in FormDates, ct \in IOChoices,
          f \in Failing(3), mode \in WriteOutcomes :
          mode \in Modes(f) /\ CreateTask(tt, dt, qd, ct, f, mode)
    \/ \E id \in 1..MaxClock, tt \in IOTitles, dt \in DescTexts, qd \in FormDates,
          ct \in IOChoices, f \in Failing(3), mode \in WriteOutcomes :
          mode \in Modes(f) /\ EditTask(id, tt, dt, qd, ct, f, mode)
    \/ \E id \in 1..MaxClock, cm \in CommentTexts, f \in Failing(3),
          mode \in WriteOutcomes :
          mode \in Modes(f) /\ CloseTask(id, cm, f, mode)
    \/ \E id \in 1..MaxClock, f \in Failing(3), mode \in WriteOutcomes :
          mode \in Modes(f) /\ RestoreTask(id, f, mode)
    \/ \E id \in 1..MaxClock, confirm \in BOOLEAN, f \in Failing(3),
          mode \in WriteOutcomes :
          mode \in Modes(f) /\ DeleteTask(id, confirm, f, mode)
    \/ \E id \in 1..MaxClock, confirm \in BOOLEAN, f \in Failing(1),
          mode \in WriteOutcomes :
          mode \in Modes(f) /\ DeleteSelected(id, confirm, f, mode)
    \/ \E confirm \in BOOLEAN, f \in Failing(3), mode \in WriteOutcomes :
          mode \in Modes(f) /\ ClearArchive(confirm, f, mode)
    \/ \E id \in 1..MaxClock : StartDrag(id)
    \/ \E new \in IOTargets : DropEvent(new)
    \/ \E yes \in BOOLEAN, accepted \in BOOLEAN, qd \in DeadlineDates,
          f \in Failing(5), mode \in WriteOutcomes :
          mode \in Modes(f) /\ DropAnswer(yes, accepted, qd, f, mode)
    \/ ResizeEvent

SpecIO == Init /\ [][NextIO]_vars

\* Tasks and topics together, every write succeeding: each file is missing
\* (first start) or holds the data of an earlier run.
TopicForms ==
    [question : {<<" ">>, <<"q", " ">>}, asked_to : {<<"p">>, <<" ">>}, asked_at : FormDates,
     deadline : FormDates, status : {"open", "answered"}, category : {<<>>},
     priority : {"medium"}, channel : {<<>>}, reminder_date : FormDates,
     answer : {<<>>}, history : {<<>>}]

LegacyTopics ==
    << [question |-> <<"q">>, asked_to |-> <<"p">>, asked_at |-> Some(to_iso(<<2024, 1, 5>>)),
        deadline |-> None, status |-> "open", category |-> <<>>, priority |-> "medium",
        channel |-> <<>>, reminder_date |-> None, tags |-> <<>>, answer |-> <<>>,
        history |-> <<>>, attachments |-> <<>>, created_at |-> Some(1),
        answered_at |-> None] >>

InitAll ==
    /\ phase = "off"
    /\ tasks = <<>>
    /\ store \in {MissingFile, JsonFile(LegacyData)}
    /\ topics = <<>>
    /\ topicStore \in {MissingFile, JsonFile(LegacyTopics)}
    /\ last_dragged_task = None
    /\ prompt = None
    /\ matrixItems = {}
    /\ timelineItems = {}
    /\ archiveItems = {}
    /\ topicItems = {}
    /\ clock = 2
    /\ failedWrites = 0
    /\ last = [outcome |-> "ok"]
    /\ call = None
    /\ ret = None

NextAll ==
    \/ Startup(0, "ok")
    \/ \E tt \in IOTitles, dt \in DescTexts, qd \in FormDates, ct \in IOChoices :
          CreateTask(tt, dt, qd, ct, 0, "ok")
    \/ \E id \in 1..MaxClock, tt \in IOTitles, dt \in DescTexts, qd \in FormDates,
          ct \in IOChoices : EditTask(id, tt, dt, qd, ct, 0, "ok")
    \/ \E id \in 1..MaxClock, cm \in CommentTexts : CloseTask(id, cm, 0, "ok")
    \/ \E id \in 1..MaxClock : RestoreTask(id, 0, "ok")
    \/ \E id \in 1..MaxClock, confirm \in BOOLEAN : DeleteTask(id, confirm, 0, "ok")
    \/ \E id \in 1..MaxClock, confirm \in BOOLEAN : DeleteSelected(id, confirm, 0, "ok")
    \/ \E confirm \in BOOLEAN : ClearArchive(confirm, 0, "ok")
    \/ \E id \in 1..MaxClock : StartDrag(id)
    \/ \E new \in IOTargets : DropEvent(new)
    \/ \E yes \in BOOLEAN, accepted \in BOOLEAN, qd \in DeadlineDates :
          DropAnswer(yes, accepted, qd, 0, "ok")
    \/ ResizeEvent
    \/ \E form \in TopicForms : TopicNew(form, 0, "ok")
    \/ \E id \in 1..MaxClock, form \in TopicForms : TopicEdit(id, form, 0, "ok")
    \/ \E id \in 1..MaxClock, confirm \in BOOLEAN : TopicDelete(id, confirm, 0, "ok")

SpecAll == InitAll /\ [][NextAll]_vars

\* ------------------------------------------------- helper functions alone
\* The helper functions of the views, each called on its own arguments.
program == <<phase, tasks, store, topics, topicStore, last_dragged_task, prompt,
             matrixItems, timelineItems, archiveItems, topicItems, clock, failedWrites, last>>

\* Raw category values: None, empty, blank, any case, surrounding whitespace,
\* legacy and unknown.
RawCategories ==
    {None, Some(<<>>), Some(<<" ">>),
     Some(DO), Some(PLAN), Some(WAIT),
     Some(ComboDo), Some(ComboDelegate), Some(<<"W", "A", "I", "T">>),
     Some(<<" ", "D", "O", " ">>), Some(<<"p", "l", "a", "n", "\n">>),
     Some(ASK), Some(<<" ", "A", "s", "k">>), Some(<<"A", "S", "K", "\t">>),
     Some(<<"a", "s", "k", "s">>), Some(<<"d", "o", " ", "d", "o">>), Some(<<"d", "o", "n", "e">>)}

\* An archived task as restore_task finds it.
ArchivedTasks ==
    {[Task(<<"a">>, c, None, "done", Some(1), Some(2), None, None, 1)
        EXCEPT !.original_category = oc] :
       c \in {DO, ASK, <<" ", "D", "O", " ">>, <<>>}, oc \in RawCategories}

NormCalls == {[fn |-> "norm_cat", cat |-> c] : c \in RawCategories}
RestoreCalls == {[fn |-> "restore_task", task |-> t] : t \in ArchivedTasks}

\* norm_cat(cat) for a raw value.
NormCat ==
    /\ call # None /\ Val(call).fn = "norm_cat" /\ ret = None
    /\ ret' = Some(norm_cat(Val(call).cat))
    /\ UNCHANGED <<program, call>>

\* The next refresh: norm_cat on the category the last one wrote.
NormCatAgain ==
    /\ call # None /\ Val(call).fn = "norm_cat" /\ ret # None
    /\ call' = Some([fn |-> "norm_cat", cat |-> ret])
    /\ ret' = Some(norm_cat(ret))
    /\ UNCHANGED program

\* restore_task on an archived task.
RestoreNorm ==
    /\ call # None /\ Val(call).fn = "restore_task" /\ ret = None
    /\ ret' = Some(restore_task(Val(call).task))
    /\ UNCHANGED <<program, call>>

\* Due dates as the store may hold them: the text, and the date it stands
\* for (None: absent, not in the stored format, or not in the calendar).
DueTexts ==
    {[text |-> None, date |-> None],
     [text |-> Some(<<>>), date |-> None],
     [text |-> Some(<<"x">>), date |-> None],
     [text |-> Some(<<"2", "0", "2", "4", "-", "2", "-", "2", "7">>), date |-> None],
     [text |-> Some(<<"2", "0", "2", "4", "-", "0", "2", "-", "3", "0">>), date |-> None],
     [text |-> Some(<<"2", "0", "2", "3", "-", "0", "2", "-", "2", "9">>), date |-> None],
     [text |-> Some(<<"2", "0", "2", "4", "-", "1", "3", "-", "0", "1">>), date |-> None],
     [text |-> Some(<<"2", "0", "2", "4", "/", "0", "2", "/", "2", "7">>), date |-> None]}
    \cup {[text |-> Some(toString(d)), date |-> Some(d)] :
             d \in {<<2023, 2, 27>>, <<2023, 2, 28>>, <<2023, 3, 1>>, <<2023, 12, 30>>,
                    <<2023, 12, 31>>, <<2024, 1, 1>>, <<2024, 1, 2>>, <<2024, 2, 27>>,
                    <<2024, 2, 28>>, <<2024, 2, 29>>, <<2024, 3, 1>>, <<2024, 3, 2>>,
                    <<2099, 1, 1>>}}

\* Values of QDate.currentDate(), each with the day that follows it.
Todays ==
    {[date |-> <<2023, 2, 28>>, next |-> <<2023, 3, 1>>],
     [date |-> <<2023, 12, 31>>, next |-> <<2024, 1, 1>>],
     [date |-> <<2024, 2, 28>>, next |-> <<2024, 2, 29>>],
     [date |-> <<2024, 2, 29>>, next |-> <<2024, 3, 1>>],
     [date |-> <<2024, 3, 1>>, next |-> <<2024, 3, 2>>]}

HighlightCalls == {[fn |-> "highlight", due |-> d, today |-> t] : d \in DueTexts, t \in Todays}

\* add_task_to_widget deciding the colour of one row.
Highlight ==
    /\ call # None /\ Val(call).fn = "highlight" /\ ret = None
    /\ ret' = Some([overdue |-> is_overdue(Val(call).due.text, Val(call).today.date),
                    due_soon |-> is_due_today_or_tomorrow(Val(call).due.text,
                                                          Val(call).today.date),
                    color |-> color(Val(call).due.text, Val(call).today.date)])
    /\ UNCHANGED <<program, call>>

\* Tasks for a bucket: the same and different due dates, an undated task, a
\* date that does not parse, a date strptime alone accepts, ties on
\* created_at and on the title, another quadrant, an archived task.
D0420 == Some(toString(<<2024, 4, 20>>))
D0501 == Some(toString(<<2024, 5, 1>>))
SortPool ==
    {Task(<<"A">>, DO, D0501, "open", Some(1), None, None, None, 1),
     Task(<<"B">>, DO, D0501, "open", Some(1), None, None, None, 1),
     Task(<<"A">>, DO, D0501, "open", Some(2), None, None, None, 1),
     Task(<<"A">>, DO, D0420, "open", Some(2), None, None, None, 1),
     Task(<<"a">>, DO, None, "open", Some(1), None, None, None, 1),
     Task(<<"A", "B">>, DO, Some(<<"x">>), "open", Some(1), None, None, None, 1),
     Task(<<"A">>, <<"D", "O">>, Some(<<"2", "0", "2", "4", "-", "4", "-", "2", "0">>), "open",
          Some(3), None, None, None, 1),
     Task(<<"A">>, ASK, D0420, "open", Some(1), None, None, None, 1),
     Task(<<"A">>, DO, D0420, "done", Some(1), Some(2), None, None, 1)}

SortCalls ==
    {[fn |-> "buckets", tasks |-> ts] :
        ts \in UNION {[1..n -> SortPool] : n \in 0..MaxBucket}}

\* MatrixView.refresh filling the quadrants from a collection.
Buckets ==
    /\ call # None /\ Val(call).fn = "buckets" /\ ret = None
    /\ ret' = Some(buckets(Val(call).tasks))
    /\ UNCHANGED <<program, call>>

\* Deadlines as a topics file may hold them: the text, and the date it stands
\* for (None: absent, empty, or no ISO date of the calendar).
DeadlineTexts ==
    {[text |-> None, date |-> None],
     [text |-> Some(<<>>), date |-> None],
     [text |-> Some(<<"x">>), date |-> None],
     [text |-> Some(to_iso(<<2024, 2, 30>>)), date |-> None],
     [text |-> Some(toString(<<2024, 2, 28>>) \o <<"T", "2", "5", ":", "0", "0", ":", "0", "0">>),
      date |-> None],
     [text |-> Some(toString(<<2024, 2, 28>>)), date |-> Some(<<2024, 2, 28>>)],
     [text |-> Some(toString(<<2024, 2, 29>>) \o <<"T", "2", "3", ":", "5", "9", ":", "5", "9">>),
      date |-> Some(<<2024, 2, 29>>)]}
    \cup {[text |-> Some(to_iso(d)), date |-> Some(d)] :
             d \in {<<2023, 2, 27>>, <<2023, 12, 31>>, <<2024, 1, 1>>, <<2024, 2, 28>>,
                    <<2024, 2, 29>>, <<2024, 3, 1>>, <<2099, 1, 1>>}}

DeadlineCalls ==
    {[fn |-> "deadline_color", deadline |-> d, status |-> st, today |-> t] :
        d \in DeadlineTexts, st \in {"open", "waiting", "blocked", "answered"}, t \in Todays}

\* TopicsView.refresh colouring the deadline cell of one row.
DeadlineColor ==
    /\ call # None /\ Val(call).fn = "deadline_color" /\ ret = None
    /\ ret' = Some(deadline_color(Val(call).deadline.text, Val(call).status,
                                  Val(call).today.date))
    /\ UNCHANGED <<program, call>>

RefreshCalls ==
    {[fn |-> "refresh_all_views", tasks |-> ts] :
        ts \in UNION {[1..n -> SortPool] : n \in 0..MaxBucket}}

\* MainWindow.refresh_all_views on a collection: the quadrants the matrix
\* shows, the collection afterwards, and the task file it has written.
RefreshAll ==
    /\ call # None /\ Val(call).fn = "refresh_all_views" /\ ret = None
    /\ LET R == refresh_all_views(Val(call).tasks, store, topicStore, "ok", "ok")
       IN  ret' = Some([buckets |-> buckets(Val(call).tasks),
                        tasks |-> R.tasks,
                        store |-> R.store])
    /\ UNCHANGED <<program, call>>

\* Times of day of datetime.now(): midnight sharp, and noon.
TimesOfDay == {0, 43200}

TimelineHighlightCalls ==
    {[fn |-> "timeline_highlight", due |-> d, today |-> t, time |-> s] :
        d \in DueTexts, t \in Todays, s \in TimesOfDay}

\* TimelineView.refresh deciding the colour of one row.
TimelineHighlight ==
    /\ call # None /\ Val(call).fn = "timeline_highlight" /\ ret = None
    /\ ret' = Some(timeline_overdue(Val(call).due.text, Val(call).today.date, Val(call).time))
    /\ UNCHANGED <<program, call>>

TimelineCalls ==
    {[fn |-> "timeline", tasks |-> ts] :
        ts \in UNION {[1..n -> SortPool] : n \in 0..MaxBucket}}

\* TimelineView.refresh listing a collection.
Timeline ==
    /\ call # None /\ Val(call).fn = "timeline" /\ ret = None
    /\ ret' = Some(timeline(Val(call).tasks))
    /\ UNCHANGED <<program, call>>

\* Python's `needle in hay` on strings.
contains(needle, hay) ==
    \E i \in 0..(Len(hay) - Len(needle)) : SubSeq(hay, i + 1, i + Len(needle)) = needle

\* " ".join([a, b])
join(a, b) == a \o <<" ">> \o b

\* The test of one topic in filtered_topics with the haystack left in its case.
keeps_case_sensitive(t, status, category, priority, person, search) ==
    /\ ~(status # "All" /\ t.status # status)
    /\ ~(priority # "All" /\ t.priority # priority)
    /\ ~(category # <<>> /\ ~contains(category, lower(t.category)))
    /\ ~(person # <<>> /\ ~contains(person, lower(t.asked_to)))
    /\ ~(search # <<>> /\ ~contains(search, join(t.question, t.answer)))

\* The test of one topic in the loop of filtered_topics: FALSE where the code
\* reaches a `continue`.  The text criteria arrive stripped and lowered.
keeps(t, status, category, priority, person, search) ==
    /\ ~(status # "All" /\ t.status # status)
    /\ ~(priority # "All" /\ t.priority # priority)
    /\ ~(category # <<>> /\ ~contains(category, lower(t.category)))
    /\ ~(person # <<>> /\ ~contains(person, lower(t.asked_to)))
    /\ ~(search # <<>> /\ ~contains(search, lower(join(t.question, t.answer))))

RECURSIVE filter_loop(_, _, _, _, _, _)
filter_loop(tps, status, category, priority, person, search) ==
    IF tps = <<>> THEN <<>>
    ELSE (IF keeps(Head(tps), status, category, priority, person, search)
          THEN <<Head(tps)>> ELSE <<>>)
         \o filter_loop(Tail(tps), status, category, priority, person, search)

\* TopicsView.filtered_topics, from the texts of the five filter widgets.
filtered_topics(tps, status_filter, category_filter, priority_filter, person_filter, search_edit) ==
    filter_loop(tps, status_filter, lower(strip(category_filter)), priority_filter,
                lower(strip(person_filter)), lower(strip(search_edit)))

\* A topic as TopicManager.load builds it from a stored record.
FilterTopic(id, question, asked_to, status, category, priority, answer) ==
    topic_from_dict([LegacyTopics[1] EXCEPT !.question = question, !.asked_to = asked_to,
                                            !.status = status, !.category = category,
                                            !.priority = priority, !.answer = answer,
                                            !.created_at = Some(id)], 2)

\* Topics for the filter: each criterion is met by some and missed by others,
\* in upper and lower case.
FilterPool ==
    {FilterTopic(1, <<"T", "o">>, <<"P", "a">>, "open", <<"A", "d">>, "medium", <<>>),
     FilterTopic(2, <<"o">>, <<"p">>, "answered", <<"d">>, "high", <<"t">>),
     FilterTopic(3, <<>>, <<"a">>, "open", <<>>, "high", <<"O">>),
     FilterTopic(4, <<"t">>, <<"A", "P">>, "blocked", <<"a", " ", "d">>, "low", <<"o">>)}

FilterCalls ==
    {[fn |-> "filtered_topics", topics |-> tps, status |-> st, category |-> cat,
      priority |-> pr, person |-> per, search |-> se] :
        tps \in UNION {[1..n -> FilterPool] : n \in 0..MaxFilter},
        st \in {"All", "open", "answered"},
        cat \in {<<>>, <<" ">>, <<"a">>, <<"D", " ">>},
        pr \in {"All", "high"},
        per \in {<<>>, <<"P">>},
        se \in {<<>>, <<"T">>, <<"t", " ", "o">>}}

\* TopicsView.filtered_topics on a collection and a setting of the filters.
FilteredTopics ==
    /\ call # None /\ Val(call).fn = "filtered_topics" /\ ret = None
    /\ ret' = Some(filtered_topics(Val(call).topics, Val(call).status, Val(call).category,
                                   Val(call).priority, Val(call).person, Val(call).search))
    /\ UNCHANGED <<program, call>>

\* A stored task record without the "title" key.
Untitled == [LegacyData[1] EXCEPT !.title = None]

\* Task files: missing, unparseable, not a list, empty, good, and lists with
\* a record that cannot be converted in each position.
TaskFiles ==
    {MissingFile, CorruptFile, ScalarFile, JsonFile(<<>>), JsonFile(LegacyData),
     JsonFile(<<Untitled>>), JsonFile(<<NotDict>>),
     JsonFile(<<LegacyData[1], Untitled>>), JsonFile(<<Untitled, LegacyData[2]>>),
     JsonFile(<<LegacyData[1], NotDict>>), JsonFile(<<NotDict, LegacyData[1], LegacyData[2]>>),
     JsonFile(<<[LegacyData[1] EXCEPT !.created_at = None]>>)}

TopicFiles ==
    {MissingFile, CorruptFile, ScalarFile, JsonFile(<<>>), JsonFile(LegacyTopics),
     JsonFile(<<NotDict>>), JsonFile(LegacyTopics \o <<NotDict>>),
     JsonFile(<<NotDict>> \o LegacyTopics)}

LoadCalls ==
    {[fn |-> "load", file |-> f, now |-> n] : f \in TaskFiles, n \in 1..MaxClock}
    \cup {[fn |-> "load_topics", file |-> f, now |-> n] : f \in TopicFiles, n \in 1..MaxClock}

\* TaskManager.__init__: load on a file.
Load ==
    /\ call # None /\ Val(call).fn = "load" /\ ret = None
    /\ ret' = Some(load(Val(call).file, Val(call).now))
    /\ UNCHANGED <<program, call>>

\* TopicManager.__init__: load on a file.
LoadTopics ==
    /\ call # None /\ Val(call).fn = "load_topics" /\ ret = None
    /\ ret' = Some(loadTopics(Val(call).file, Val(call).now))
    /\ UNCHANGED <<program, call>>

FnCalls ==
    NormCalls \cup RestoreCalls \cup HighlightCalls \cup SortCalls \cup FilterCalls
    \cup LoadCalls \cup TimelineCalls \cup TimelineHighlightCalls \cup RefreshCalls
    \cup DeadlineCalls

InitFn ==
    /\ phase = "off"
    /\ tasks = <<>>
    /\ store = MissingFile
    /\ topics = <<>>
    /\ topicStore = MissingFile
    /\ last_dragged_task = None
    /\ prompt = None
    /\ matrixItems = {}
    /\ timelineItems = {}
    /\ archiveItems = {}
    /\ topicItems = {}
    /\ clock = 2
    /\ failedWrites = 0
    /\ last = [outcome |-> "ok"]
    /\ call \in {Some(c) : c \in FnCalls}
    /\ ret = None

NextFn ==
    \/ NormCat
    \/ NormCatAgain
    \/ RestoreNorm
    \/ Highlight
    \/ Buckets
    \/ FilteredTopics
    \/ Load
    \/ LoadTopics
    \/ Timeline
    \/ TimelineHighlight
    \/ RefreshAll
    \/ DeadlineColor

SpecFn == InitFn /\ [][NextFn]_vars

\* ---------------------------------------------------------------- claims
\* C1: an archived task that is restored comes back in the (normalized)
\* quadrant it was in when it was archived.  A done task's category is the one
\* it was archived with, so: every step that takes a task from done to open
\* leaves it with the normalized category it had as a done task.
C1_RestoreReturnsToQuadrant ==
    [][\A id \in 1..MaxClock :
          (/\ id \in Ids(tasks) /\ id \in Ids(tasks')
           /\ TaskOf(tasks, id).status = "done"
           /\ TaskOf(tasks', id).status = "open")
          => TaskOf(tasks', id).category = norm_cat(Some(TaskOf(tasks, id).category))]_vars

\* C2: once a task has an original_category it keeps one through every later
\* step (restart of the application included), and the value changes only in
\* a drop on a quadrant.
C2_OriginalCategoryKept ==
    [][\A id \in 1..MaxClock :
          (/\ id \in Ids(tasks) /\ id \in Ids(tasks')
           /\ TaskOf(tasks, id).original_category # None)
          => /\ TaskOf(tasks', id).original_category # None
             /\ (TaskOf(tasks', id).original_category # TaskOf(tasks, id).original_category
                 => prompt = None /\ prompt' # None)]_vars

\* C3: right after archive_task the task is done, has a completed_at, has the
\* given comment, and its original_category is the pre-archive category when it
\* had none before (and is as it was otherwise).
C3_ArchiveSetsFields ==
    [][\A id \in 1..MaxClock, cm \in CommentTexts :
          (CloseTask(id, cm, 0, "ok") /\ id \in Ids(tasks))
          => /\ id \in Ids(tasks')
             /\ TaskOf(tasks', id).status = "done"
             /\ TaskOf(tasks', id).completed_at # None
             /\ TaskOf(tasks', id).closing_comment = close_task_comment(cm)
             /\ TaskOf(tasks', id).original_category =
                   IF TaskOf(tasks, id).original_category = None
                   THEN Some(TaskOf(tasks, id).category)
                   ELSE TaskOf(tasks, id).original_category]_vars

\* C3 witness: a task archived in this run that had no original_category.
C3_Witness ==
    \E i \in 1..Len(tasks) :
        /\ tasks[i].status = "done"
        /\ tasks[i].completed_at # None /\ Val(tasks[i].completed_at) > 2
        /\ tasks[i].closing_comment = Some(<<"c">>)
        /\ tasks[i].original_category = Some(tasks[i].category)

\* C4: restore makes the task open with category normalize(original_category)
\* when it has one, else normalize(category); the result is canonical.
C4_RestoreSetsCategory ==
    [][\A id \in 1..MaxClock :
          (RestoreTask(id, 0, "ok") /\ id \in Ids(tasks))
          => /\ id \in Ids(tasks')
             /\ TaskOf(tasks', id).status = "open"
             /\ TaskOf(tasks', id).category =
                   IF TaskOf(tasks, id).original_category # None
                   THEN norm_cat(TaskOf(tasks, id).original_category)
                   ELSE norm_cat(Some(TaskOf(tasks, id).category))
             /\ TaskOf(tasks', id).category \in Canonical]_vars

\* C4 witness: a restored task (open, with the completed_at of its archive)
\* that sits in its original_category.
C4_Witness ==
    \E i \in 1..Len(tasks) :
        /\ tasks[i].status = "open"
        /\ tasks[i].completed_at # None
        /\ tasks[i].original_category = Some(tasks[i].category)

\* C5: every done task has a completed_at.
C5_DoneHasCompletedAt ==
    \A i \in 1..Len(tasks) : tasks[i].status = "done" => tasks[i].completed_at # None

\* C5 witness: a task archived in this run (not one loaded as done).
C5_Witness ==
    \E i \in 1..Len(tasks) :
        /\ tasks[i].status = "done"
        /\ tasks[i].completed_at = Some(clock)
        /\ clock > 2

\* C6: every task of the collection has a title that is non-empty after trim.
C6_TitleNonEmpty ==
    \A i \in 1..Len(tasks) : strip(tasks[i].title) # <<>>

\* C7: a create with a blank title or a category outside the four leaves the
\* collection and the store as they are; any other create appends exactly one
\* task, open and without completed_at.
C7_CreateValidated ==
    [][\A tt \in TitleTexts, dt \in DescTexts, qd \in FormDates, ct \in CreateChoices :
          CreateTask(tt, dt, qd, ct, 0, "ok")
          => IF strip(tt) = <<>> \/ lower(strip(ct)) \notin {DO, PLAN, DELEGATE, WAIT}
             THEN tasks' = tasks /\ store' = store
             ELSE /\ Len(tasks') = Len(tasks) + 1
                  /\ SubSeq(tasks', 1, Len(tasks)) = tasks
                  /\ tasks'[Len(tasks')].status = "open"
                  /\ tasks'[Len(tasks')].completed_at = None
                  /\ store' = JsonFile(dump(tasks'))]_vars

\* C7 witness: a create has just been rejected.
C7_WitnessRejected == last.outcome = "rejected" /\ phase = "running"

\* A step of a lifecycle command that returns, whatever its writes do.
LifecycleStep ==
    \E f \in 0..5, mode \in WriteOutcomes :
        \/ \E tt \in TitleTexts, dt \in DescTexts, qd \in FormDates, ct \in CreateChoices :
              CreateTask(tt, dt, qd, ct, f, mode)
        \/ \E id \in 1..MaxClock, tt \in TitleTexts, dt \in DescTexts, qd \in FormDates,
              ct \in EditChoices : EditTask(id, tt, dt, qd, ct, f, mode)
        \/ \E id \in 1..MaxClock, cm \in CommentTexts : CloseTask(id, cm, f, mode)
        \/ \E id \in 1..MaxClock : RestoreTask(id, f, mode)
        \/ \E id \in 1..MaxClock, confirm \in BOOLEAN :
              DeleteTask(id, confirm, f, mode) \/ DeleteSelected(id, confirm, f, mode)
        \/ \E confirm \in BOOLEAN : ClearArchive(confirm, f, mode)
        \/ \E yes \in BOOLEAN, accepted \in BOOLEAN, qd \in DeadlineDates :
              DropAnswer(yes, accepted, qd, f, mode)

\* C8: no lifecycle transition applies partially.  Every step of a command
\* that has returned (create, edit, drag-reassign, archive, restore, delete)
\* either leaves the collection and the store as they were, or leaves the
\* store holding the serialization of the mutated collection -- also when a
\* write of the store fails.
C8_NoPartialTransition ==
    [][LifecycleStep
       => \/ tasks' = tasks /\ store' = store
          \/ store' = JsonFile(dump(tasks'))]_vars

\* C9: when a command has returned, each file holds the serialization of the
\* collection in memory (tasks and topics).
C9_StoreIsSerialization ==
    Interactive => /\ store = JsonFile(dump(tasks))
                   /\ topicStore = JsonFile(dumpTopics(topics))

\* C9 witness: a task dragged to "do" and a topic created in this run, both
\* commands returned.
C9_Witness ==
    /\ Interactive
    /\ \E i \in 1..Len(tasks) :
          /\ tasks[i].category = DO
          /\ tasks[i].original_category = Some(DO)
    /\ \E j \in 1..Len(topics) : topics[j].created_at > 2

\* C10: a drop of an open task on another quadrant sets original_category to
\* the new category while category is still the old one (the step up to the
\* question box); the step from the answer on, Yes or No, leaves category and
\* original_category equal to the new category and the collection persisted.
C10_DragReassign ==
    [][/\ \A new \in DropTargets :
             (/\ DropEvent(new)
              /\ prompt' # None
              /\ Val(prompt').task \in OpenIds(tasks))
             => LET id == Val(prompt').task
                IN  /\ TaskOf(tasks', id).original_category = Some(new)
                    /\ TaskOf(tasks', id).category = TaskOf(tasks, id).category
                    /\ TaskOf(tasks', id).category # new
       /\ \A yes \in BOOLEAN, accepted \in BOOLEAN, qd \in DeadlineDates :
             (DropAnswer(yes, accepted, qd, 0, "ok") /\ Val(prompt).task \in OpenIds(tasks))
             => LET id == Val(prompt).task
                    new == Val(prompt).new
                IN  /\ id \in Ids(tasks')
                    /\ TaskOf(tasks', id).category = new
                    /\ TaskOf(tasks', id).original_category = Some(new)
                    /\ store' = JsonFile(dump(tasks'))]_vars

\* C10 witness: the question box is open on a task whose original_category
\* is already the new category and whose category is still the old one.
C10_WitnessMarked ==
    /\ prompt # None
    /\ Val(prompt).task \in OpenIds(tasks)
    /\ TaskOf(tasks, Val(prompt).task).original_category = Some(Val(prompt).new)
    /\ TaskOf(tasks, Val(prompt).task).category # Val(prompt).new

\* A step of one of the three delete paths, whatever its writes do.
DeleteStep ==
    \E f \in 0..3, mode \in WriteOutcomes :
        \/ \E id \in 1..MaxClock, confirm \in BOOLEAN :
              DeleteTask(id, confirm, f, mode) \/ DeleteSelected(id, confirm, f, mode)
        \/ \E confirm \in BOOLEAN : ClearArchive(confirm, f, mode)

\* C11: no delete path removes a task that is open at the moment of the
\* removal, and a confirmed clear-archive removes all and only the done tasks.
C11_DeleteKeepsOpenTasks ==
    [][/\ DeleteStep => OpenIds(tasks) \subseteq Ids(tasks')
       /\ \A f \in 0..3, mode \in WriteOutcomes :
             ClearArchive(TRUE, f, mode) => Ids(tasks') = OpenIds(tasks)]_vars

\* The created_at values of the records a file holds.
StoredIds(file) ==
    IF file.kind = "json" THEN {Val(file.data[i].created_at) : i \in 1..Len(file.data)}
    ELSE {}

\* C12: a confirmed delete of an archived task takes exactly that task out of
\* the collection (so out of all_open_tasks too) and out of the store, leaves
\* every other task as it was, and no later step -- restore, restart -- brings
\* a task that has gone back into the collection.
C12_DeleteIsPermanent ==
    [][/\ \A id \in 1..MaxClock :
             (/\ DeleteTask(id, TRUE, 0, "ok") \/ DeleteSelected(id, TRUE, 0, "ok")
              /\ id \in DoneIds(tasks))
             => /\ id \notin Ids(tasks')
                /\ id \notin OpenIds(all_open_tasks(tasks'))
                /\ id \notin StoredIds(store')
                /\ Len(tasks') = Len(tasks) - 1
                /\ \A j \in Ids(tasks) \ {id} :
                      j \in Ids(tasks') /\ TaskOf(tasks', j) = TaskOf(tasks, j)
       /\ \A id \in 1..MaxClock :
             (phase = "running" /\ id <= clock /\ id \notin Ids(tasks))
             => id \notin Ids(tasks') /\ id \notin StoredIds(store')]_vars

\* C12 witness: of the two tasks the store came with, the archived one has
\* been deleted and the other is still there.
C12_Witness ==
    /\ phase = "running"
    /\ Ids(tasks) = {1}
    /\ StoredIds(store) = {1}

\* What the rule gives for a raw category: trim and lower-case, "ask" is
\* "delegate", one of the four is itself, anything else (None too) is "plan".
Normalized(raw) ==
    LET c == lower(strip(IF raw = None THEN <<>> ELSE Val(raw)))
    IN  CASE c = <<"a", "s", "k">> -> <<"d", "e", "l", "e", "g", "a", "t", "e">>
          [] c = <<"d", "o">> -> c
          [] c = <<"p", "l", "a", "n">> -> c
          [] c = <<"d", "e", "l", "e", "g", "a", "t", "e">> -> c
          [] c = <<"w", "a", "i", "t">> -> c
          [] OTHER -> <<"p", "l", "a", "n">>

\* C13: for every raw category, norm_cat (and the normalization restore_task
\* does on its own) returns one of do, plan, delegate, wait, namely the value
\* the rule gives.
C13_NormalizeTotal ==
    (call # None /\ ret # None)
    => /\ Val(call).fn = "norm_cat"
          => /\ Val(ret) \in {<<"d", "o">>, <<"p", "l", "a", "n">>,
                               <<"d", "e", "l", "e", "g", "a", "t", "e">>,
                               <<"w", "a", "i", "t">>}
             /\ Val(ret) = Normalized(Val(call).cat)
       /\ Val(call).fn = "restore_task"
          => LET t == Val(call).task
                 raw == IF t.original_category \in {None, Some(<<>>)}
                        THEN Some(t.category) ELSE t.original_category
             IN  Val(ret).category = Normalized(raw)

\* C13 witness: the legacy value " Ask" has come out as "delegate".
C13_Witness ==
    /\ call = Some([fn |-> "norm_cat", cat |-> Some(<<" ", "A", "s", "k">>)])
    /\ ret = Some(DELEGATE)

\* C14: normalizing a normalized category changes nothing.
C14_NormalizeIdempotent ==
    [][NormCatAgain => ret' = ret]_vars

\* C14 witness: "delegate", itself the result of a normalization, has been
\* normalized again.
C14_Witness ==
    /\ call = Some([fn |-> "norm_cat", cat |-> Some(DELEGATE)])
    /\ ret = Some(DELEGATE)

\* The number of a date in an order-preserving count (months of 31 days).
DayCount(d) == (d[1] * 12 + d[2]) * 31 + d[3]

\* C16: is_overdue is true exactly when the due date is present, is a date of
\* the calendar and lies strictly before today; so it is false for an absent
\* date, an invalid one, today and any later day.
C16_OverdueExact ==
    (call # None /\ ret # None /\ Val(call).fn = "highlight")
    => LET due == Val(call).due.date
           today == Val(call).today.date
       IN  Val(ret).overdue <=> (due # None /\ DayCount(Val(due)) < DayCount(today))

\* C16 witness: yesterday's date is overdue, across the end of a year.
C16_Witness ==
    /\ call # None /\ ret # None /\ Val(call).fn = "highlight"
    /\ Val(call).due.date = Some(<<2023, 12, 31>>)
    /\ Val(call).today.date = <<2024, 1, 1>> \/ Val(call).today.date = <<2024, 2, 28>>
    /\ Val(ret).overdue

\* C17: is_due_today_or_tomorrow is true exactly when the due date is present,
\* valid and is today or the day after; overdue and due-soon are never both
\* true; the row is red exactly when overdue and orange exactly when due soon.
C17_DueSoonExact ==
    (call # None /\ ret # None /\ Val(call).fn = "highlight")
    => LET due == Val(call).due.date
           today == Val(call).today
       IN  /\ Val(ret).due_soon <=> (due # None /\ Val(due) \in {today.date, today.next})
           /\ ~(Val(ret).overdue /\ Val(ret).due_soon)
           /\ Val(ret).overdue <=> Val(ret).color = "red"
           /\ Val(ret).due_soon <=> Val(ret).color = "#e67e22"

\* C17 witness: tomorrow is in the next month (29 February, then 1 March).
C17_Witness ==
    /\ call # None /\ ret # None /\ Val(call).fn = "highlight"
    /\ Val(call).today.date = <<2024, 2, 29>>
    /\ Val(call).due.date = Some(<<2024, 3, 1>>)
    /\ Val(ret).due_soon /\ Val(ret).color = "#e67e22"

\* The date a task's due_date stands for in the pool (None: no date).
DueOf(t) ==
    CASE t.due_date = D0501 -> Some(<<2024, 5, 1>>)
      [] t.due_date = D0420 -> Some(<<2024, 4, 20>>)
      [] t.due_date = Some(<<"2", "0", "2", "4", "-", "4", "-", "2", "0">>) -> Some(<<2024, 4, 20>>)
      [] OTHER -> None

\* x comes strictly before y in the composite key (has no due date, due
\* date, created_at, title).
Before(x, y) ==
    LET dx == DueOf(x)
        dy == DueOf(y)
    IN  \/ dx # None /\ dy = None
        \/ dx # None /\ dy # None /\ DayCount(Val(dx)) < DayCount(Val(dy))
        \/ /\ dx = dy \/ (dx # None /\ dy # None /\ DayCount(Val(dx)) = DayCount(Val(dy)))
           /\ \/ x.created_at < y.created_at
              \/ x.created_at = y.created_at /\ StrLess(x.title, y.title)

\* How often the task x, in quadrant c, occurs in ts.
Count(ts, x, c) ==
    Cardinality({i \in 1..Len(ts) : [ts[i] EXCEPT !.category = c] = [x EXCEPT !.category = c]})

\* C15: each bucket holds exactly the open tasks of its quadrant, in ascending
\* order of the composite key: dated before undated, then by due date, then
\* by created_at, then by title.  (The order is a function of the collection:
\* no later element of a bucket comes before an earlier one in the key.)
C15_BucketsSorted ==
    (call # None /\ ret # None /\ Val(call).fn = "buckets")
    => \A c \in {<<"d", "o">>, <<"p", "l", "a", "n">>,
                  <<"d", "e", "l", "e", "g", "a", "t", "e">>, <<"w", "a", "i", "t">>} :
          LET out == Val(ret)[c]
              inp == SelectSeq(Val(call).tasks,
                               LAMBDA t : t.status = "open" /\ Normalized(Some(t.category)) = c)
          IN  /\ \A i, j \in 1..Len(out) : i < j => ~Before(out[j], out[i])
              /\ Len(out) = Len(inp)
              /\ \A x \in SortPool : Count(out, x, c) = Count(inp, x, c)
              /\ \A i \in 1..Len(out) : out[i].category = c

\* C15 witness: three tasks with the same due date given in the order that
\* the key reverses: created_at 2 first, then title "B", then title "A".
C15_Witness ==
    /\ call # None /\ ret # None /\ Val(call).fn = "buckets"
    /\ Len(Val(call).tasks) = 3
    /\ Val(call).tasks[1].created_at = 2 /\ Val(call).tasks[1].due_date = D0501
    /\ Val(call).tasks[2].title = <<"B">>
    /\ Val(call).tasks[3].title = <<"A">> /\ Val(call).tasks[3].due_date = D0501
    /\ Val(call).tasks[3].created_at = 1
    /\ Val(ret)[DO] = <<Val(call).tasks[3], Val(call).tasks[2], Val(call).tasks[1]>>

\* The topic with created_at = id.
TopicOf(tps, id) == tps[CHOOSE i \in 1..Len(tps) : tps[i].created_at = id]

\* C18: once a topic has an answered_at, no later step changes it, whatever
\* the status is set to (away from "answered", back to it) and across a
\* restart.
C18_AnsweredAtSetOnce ==
    [][\A id \in 1..MaxClock :
          (/\ id \in TopicIds(topics) /\ id \in TopicIds(topics')
           /\ TopicOf(topics, id).answered_at # None)
          => TopicOf(topics', id).answered_at = TopicOf(topics, id).answered_at]_vars

\* C18 witness: an answered topic has been saved again with another status
\* and still has its answered_at.
C18_Witness ==
    \E i \in 1..Len(topics) :
        /\ topics[i].answered_at # None
        /\ topics[i].status = "open"

\* A letter and its other case are the same letter.
SameLetter(a, b) ==
    \/ a = b
    \/ a \in DOMAIN UpperToLower /\ UpperToLower[a] = b
    \/ b \in DOMAIN UpperToLower /\ UpperToLower[b] = a

\* text occurs in field, ignoring case.
Within(text, field) ==
    \E off \in 0..(Len(field) - Len(text)) :
        \A k \in 1..Len(text) : SameLetter(text[k], field[off + k])

\* A text criterion as given: the filter text without surrounding blanks.
Given(text) ==
    LET ix == {i \in 1..Len(text) : text[i] \notin Whitespace}
    IN  IF ix = {} THEN <<>>
        ELSE SubSeq(text, CHOOSE i \in ix : \A j \in ix : i <= j,
                          CHOOSE i \in ix : \A j \in ix : j <= i)

\* The topic satisfies every criterion of the call.
Satisfies(t, c) ==
    /\ c.status = "All" \/ t.status = c.status
    /\ c.priority = "All" \/ t.priority = c.priority
    /\ Within(Given(c.category), t.category)
    /\ Within(Given(c.person), t.asked_to)
    /\ Within(Given(c.search), t.question \o <<" ">> \o t.answer)

\* The positions of the call's collection whose topic satisfies the criteria.
Kept(c) == {i \in 1..Len(c.topics) : Satisfies(c.topics[i], c)}

\* C19: the filter returns exactly the topics that satisfy every criterion
\* given (status and priority exactly unless "All", category and person as
\* substrings ignoring case), in the order of the collection; with status and
\* priority "All" and every text empty it returns the collection as it is.
C19_FilterExact ==
    (call # None /\ ret # None /\ Val(call).fn = "filtered_topics")
    => LET c == Val(call)
           r == Val(ret)
       IN  /\ Len(r) = Cardinality(Kept(c))
           /\ \A k \in 1..Len(r) :
                 \E i \in Kept(c) :
                    /\ Cardinality({j \in Kept(c) : j < i}) = k - 1
                    /\ r[k] = c.topics[i]
           /\ (/\ c.status = "All" /\ c.priority = "All" /\ c.category = <<>>
               /\ c.person = <<>> /\ c.search = <<>>)
              => r = c.topics

\* C19 witness: a filter on status "answered", priority "high", category "D "
\* and person "P" over an open and an answered topic returns the answered
\* one alone.
C19_Witness ==
    /\ call # None /\ ret # None /\ Val(call).fn = "filtered_topics"
    /\ Len(Val(call).topics) = 2
    /\ Val(call).topics[1].status = "open" /\ Val(call).topics[2].status = "answered"
    /\ Val(call).status = "answered" /\ Val(call).priority = "high"
    /\ Val(call).category = <<"D", " ">> /\ Val(call).person = <<"P">>
    /\ Val(ret) = <<Val(call).topics[2]>>

\* The text is empty once trimmed: it has no character that is not a blank.
Blank(text) == \A i \in 1..Len(text) : text[i] \in Whitespace

\* C20: a topic create or a topic edit whose question or asked_to is empty
\* after trimming changes nothing: no topic is added, no field of a topic
\* changes, and the topics file is not written.
C20_TopicValidated ==
    [][\A form \in TopicForms :
          (/\ Blank(form.question) \/ Blank(form.asked_to)
           /\ \/ TopicNew(form, 0, "ok")
              \/ \E id \in 1..MaxClock : TopicEdit(id, form, 0, "ok"))
          => /\ topics' = topics
             /\ topicStore' = topicStore
             /\ last'.outcome = "rejected"]_vars

\* C20 witness: the topic dialog has just rejected a save while a topic
\* exists, and the topic and the file are as the last save left them.
C20_Witness ==
    /\ last.outcome = "rejected" /\ last.op = "save_and_close"
    /\ topics # <<>>
    /\ topicStore = JsonFile(dumpTopics(topics))

\* The file exists and holds a list whose every element can be made a task
\* (an object with a title) or, for topics, a topic (an object).
Readable(file, needsTitle) ==
    /\ file.kind = "json"
    /\ \A i \in 1..Len(file.data) :
          /\ "json" \notin DOMAIN file.data[i]
          /\ needsTitle => file.data[i].title # None

\* C21: load of a file that is missing, does not parse, or holds a record
\* that cannot be made a task (a topic) gives the empty collection; load
\* always gives a collection, one entry per record when the file is good.
C21_LoadDegradesToEmpty ==
    (call # None /\ ret # None /\ Val(call).fn \in {"load", "load_topics"})
    => IF Readable(Val(call).file, Val(call).fn = "load")
       THEN Len(Val(ret)) = Len(Val(call).file.data)
       ELSE Val(ret) = <<>>

\* C21 witness: a task file whose first record is good and whose second has
\* no title has been loaded, and the collection is empty.
C21_Witness ==
    /\ call # None /\ ret # None /\ Val(call).fn = "load"
    /\ Val(call).file = JsonFile(<<LegacyData[1], Untitled>>)
    /\ Val(ret) = <<>>

\* C22: starting the application on a task file that exists but does not
\* parse leaves the file as it was.
C22_StartupKeepsUnreadableStore ==
    [][(store = CorruptFile /\ Startup(0, "ok")) => store' = store]_vars

\* C23: the timeline lists the open tasks in the order of the matrix key
\* (no due date last, due date, created_at, title).
C23_TimelineUsesMatrixKey ==
    (call # None /\ ret # None /\ Val(call).fn = "timeline")
    => Val(ret) = sort(all_open_tasks(Val(call).tasks))

\* C24: the timeline marks a task overdue exactly when the matrix's
\* is_overdue does, that is when its due date is before today's date,
\* whatever the time of day.
C24_TimelineOverdueAgrees ==
    (call # None /\ ret # None /\ Val(call).fn = "timeline_highlight")
    => Val(ret) = is_overdue(Val(call).due.text, Val(call).today.date)

\* The four quadrants.
Four == {<<"d", "o">>, <<"p", "l", "a", "n">>,
         <<"d", "e", "l", "e", "g", "a", "t", "e">>, <<"w", "a", "i", "t">>}

\* C25: a refresh puts every open task in exactly one quadrant, the one its
\* normalized category names, and no archived task in any; it rewrites each
\* open task's category to the normalized value and leaves archived tasks
\* alone; refresh_all_views then writes the rewritten collection to the file.
C25_RefreshBucketsAndHeals ==
    (call # None /\ ret # None /\ Val(call).fn = "refresh_all_views")
    => LET ts == Val(call).tasks
           r == Val(ret)
       IN  /\ Len(r.tasks) = Len(ts)
           /\ \A i \in 1..Len(ts) :
                 IF ts[i].status = "open"
                 THEN /\ r.tasks[i] =
                           [ts[i] EXCEPT !.category = Normalized(Some(ts[i].category))]
                      /\ \A c \in Four :
                            (\E k \in 1..Len(r.buckets[c]) : r.buckets[c][k] = r.tasks[i])
                            <=> c = Normalized(Some(ts[i].category))
                 ELSE r.tasks[i] = ts[i]
           /\ \A c \in Four : \A k \in 1..Len(r.buckets[c]) :
                 r.buckets[c][k].status = "open"
           /\ Len(r.buckets[<<"d", "o">>]) + Len(r.buckets[<<"p", "l", "a", "n">>])
                + Len(r.buckets[<<"d", "e", "l", "e", "g", "a", "t", "e">>])
                + Len(r.buckets[<<"w", "a", "i", "t">>])
              = Cardinality({i \in 1..Len(ts) : ts[i].status = "open"})
           /\ r.store.kind = "json"
           /\ Len(r.store.data) = Len(r.tasks)
           /\ \A i \in 1..Len(r.tasks) : r.store.data[i].category = r.tasks[i].category

\* C25 witness: a collection of a legacy "ask" task, a "DO" task and an
\* archived task has been refreshed: the first is in delegate and stored as
\* delegate, the second in do, the third in no quadrant.
C25_Witness ==
    /\ call # None /\ ret # None /\ Val(call).fn = "refresh_all_views"
    /\ Len(Val(call).tasks) = 3
    /\ Val(call).tasks[1].category = ASK
    /\ Val(call).tasks[2].category = <<"D", "O">>
    /\ Val(call).tasks[3].status = "done"
    /\ Len(Val(ret).buckets[DELEGATE]) = 1 /\ Len(Val(ret).buckets[DO]) = 1
    /\ Val(ret).store.data[1].category = DELEGATE
    /\ Val(ret).store.data[2].category = DO

\* C26: a confirmed delete of a task or topic that is no longer in the
\* collection changes neither the collection nor the store and raises nothing.
C26_StaleDeleteIsNoOp ==
    [][\A id \in 1..MaxClock, f \in 0..3, mode \in WriteOutcomes :
          /\ (/\ id \notin Ids(tasks)
              /\ DeleteTask(id, TRUE, f, mode) \/ DeleteSelected(id, TRUE, f, mode))
             => tasks' = tasks /\ store' = store /\ last'.outcome = "ok"
          /\ (id \notin TopicIds(topics) /\ TopicDelete(id, TRUE, f, mode))
             => topics' = topics /\ topicStore' = topicStore /\ last'.outcome = "ok"]_vars

\* C27: a topic's deadline is shown overdue (red) exactly when the deadline
\* is present, is an ISO date of the calendar, its date is before today's
\* date, and the status is not "answered".
C27_TopicOverdueExact ==
    (call # None /\ ret # None /\ Val(call).fn = "deadline_color")
    => LET due == Val(call).deadline.date
       IN  (Val(ret) = "red")
           <=> /\ due # None
               /\ DayCount(Val(due)) < DayCount(Val(call).today.date)
               /\ Val(call).status # "answered"

\* C27 witness: a deadline of yesterday is red on an open topic.
C27_Witness ==
    /\ call # None /\ ret # None /\ Val(call).fn = "deadline_color"
    /\ Val(call).deadline.date = Some(<<2024, 2, 28>>)
    /\ Val(call).today.date = <<2024, 2, 29>>
    /\ Val(call).status = "waiting"
    /\ Val(ret) = "red"

\* C28: a restore changes category and status of the restored task and
\* nothing else: its title, description, due_date, created_at, completed_at,
\* closing_comment and original_category stay, and so does every other task.
C28_RestoreFrame ==
    [][\A id \in 1..MaxClock :
          (RestoreTask(id, 0, "ok") /\ id \in Ids(tasks))
          => /\ Len(tasks') = Len(tasks)
             /\ \A i \in 1..Len(tasks) :
                   IF tasks[i].created_at = id
                   THEN /\ tasks'[i].title = tasks[i].title
                        /\ tasks'[i].description = tasks[i].description
                        /\ tasks'[i].due_date = tasks[i].due_date
                        /\ tasks'[i].created_at = tasks[i].created_at
                        /\ tasks'[i].completed_at = tasks[i].completed_at
                        /\ tasks'[i].closing_comment = tasks[i].closing_comment
                        /\ tasks'[i].original_category = tasks[i].original_category
                   ELSE tasks'[i] = tasks[i]]_vars

\* C28 witness: next to another task, a task archived with a comment has
\* been restored and still has its comment and its completed_at.
C28_Witness ==
    /\ Len(tasks) = 2
    /\ \E i \in 1..2 :
          /\ tasks[i].status = "open"
          /\ tasks[i].closing_comment = Some(<<"c">>)
          /\ tasks[i].completed_at = Some(3)

\* C29: saving an edit of an open task changes at most its title,
\* description, due_date and category, the category only to one of the four;
\* its status, created_at, completed_at, closing_comment (and
\* original_category) stay, and so does every other task.  (Written as
\* "the frame is kept, or the step is no edit of that task".)
C29_EditFrame ==
    [][\A id \in 1..MaxClock :
          \/ /\ Len(tasks') = Len(tasks)
             /\ \A i \in 1..Len(tasks) :
                   IF tasks[i].created_at = id
                   THEN /\ tasks'[i].status = tasks[i].status
                        /\ tasks'[i].created_at = tasks[i].created_at
                        /\ tasks'[i].completed_at = tasks[i].completed_at
                        /\ tasks'[i].closing_comment = tasks[i].closing_comment
                        /\ tasks'[i].original_category = tasks[i].original_category
                        /\ \/ tasks'[i].category = tasks[i].category
                           \/ tasks'[i].category \in Four
                   ELSE tasks'[i] = tasks[i]
          \/ ~(/\ id \in OpenIds(tasks)
               /\ \E tt \in TitleTexts, dt \in DescTexts, qd \in FormDates, ct \in EditChoices :
                     EditTask(id, tt, dt, qd, ct, 0, "ok"))]_vars

\* C29 witness: the task the store held as archived has been restored and
\* then edited (it has a description now, and the quadrant chosen in the
\* dialog) and still has its completed_at.
C29_Witness ==
    /\ Len(tasks) = 2
    /\ \E i \in 1..2 :
          /\ tasks[i].created_at = 2
          /\ tasks[i].status = "open"
          /\ tasks[i].description = Some(<<"x">>)
          /\ tasks[i].category = DELEGATE
          /\ tasks[i].completed_at = Some(2)

\* C30: a drop event changes category and original_category only of a task
\* that is open and in the collection at the time of the drop: no step of a
\* drop (the event, the answer to its question) changes either field of a
\* task that is done.
C30_DropTouchesOpenTasksOnly ==
    [][(\/ \E new \in DropTargets : DropEvent(new)
        \/ \E yes \in BOOLEAN, accepted \in BOOLEAN, qd \in DeadlineDates :
              DropAnswer(yes, accepted, qd, 0, "ok"))
       => \A i \in 1..Len(tasks) :
             tasks[i].status = "done"
             => /\ i <= Len(tasks')
                /\ tasks'[i].category = tasks[i].category
                /\ tasks'[i].original_category = tasks[i].original_category]_vars

====
